---- MODULE Spec2Model ----
(***************************************************************************)
(* Model of the VPSie load-balancer agent: the reconciliation engine       *)
(* (pkg/agent/agent.go), the on-disk configuration store                   *)
(* (envoy.ConfigManager), the renderer (envoy.Generator), the hot-restart  *)
(* driver (envoy.Reloader), the model validators (pkg/models) and the      *)
(* retry loop of the API client (pkg/agent/vpsie_client.go).               *)
(*                                                                         *)
(* One reconciliation (Agent.syncConfiguration) is modelled statement by   *)
(* statement: pc is the worker's position inside it.  Everything the       *)
(* environment decides (what the API returns, which file operation fails,  *)
(* whether the proxy binary can be spawned, whether the event POST         *)
(* succeeds) is an input drawn with \E.                                    *)
(***************************************************************************)
EXTENDS Integers, Sequences, FiniteSets, TLC

\* ------------------------------------------------------------------ bounds

\* Number of reconciliations (initial sync + poll ticks) explored.
MaxTicks == 3

\* ------------------------------------------------------------- error values

Nil == "nil"

\* ---------------------------------------------------------------- the model
\* Strings are atomic in TLC, so the regular expressions of the source are
\* modelled by their value on the addresses and paths the inputs use.

\* net.ParseIP(addr) != nil
IPAddresses == {"10.0.0.1", "10.0.0.2"}

\* models.HostnameRegex.MatchString(addr)  (an IP literal matches it too)
HostnameMatches == IPAddresses \cup {"backend.local"}

\* healthCheckPathRegex.MatchString(path)
SafeHealthCheckPaths == {"/health"}

ValidTLSVersions == {"TLSv1.2", "TLSv1.3"}

\* A pointer field is a sequence of length 0 (nil) or 1.
NilPtr == << >>

Backend1 ==
  [id |-> "be-1", address |-> "10.0.0.1", status |-> "", port |-> 8080,
   weight |-> 0, enabled |-> TRUE]

HealthCheckHTTP(path) ==
  [type |-> "http", interval |-> 10, timeout |-> 5, unhealthyThreshold |-> 3,
   healthyThreshold |-> 2, path |-> path, expectedStatus |-> << >>]

\* S1 of the specification: the smallest valid HTTP load balancer.
LB_S1 ==
  [id |-> "lb-1", name |-> "t", protocol |-> "http", port |-> 80,
   algorithm |-> "round_robin", backends |-> << Backend1 >>,
   healthCheck |-> NilPtr, tlsConfig |-> NilPtr, timeouts |-> NilPtr,
   maxConnections |-> 0, createdAt |-> 0, updatedAt |-> 0]

\* S4: the backend address mutated.
LB_S4 == [LB_S1 EXCEPT !.backends = << [Backend1 EXCEPT !.address = "10.0.0.2"] >>]

\* S3: HTTPS without a TLSConfig (fails validation).
LB_S3 == [LB_S1 EXCEPT !.protocol = "https"]

\* A health check whose path passes HealthCheck.Validate (non-empty) but not
\* the renderer's regular expression: validation passes, rendering fails.
LB_BadPath == [LB_S1 EXCEPT !.healthCheck = << HealthCheckHTTP("health") >>]

\* No backends (fails validation).
LB_NoBackends == [LB_S1 EXCEPT !.backends = << >>]

\* A second backend with port 0 (fails validation).
LB_BadBackend ==
  [LB_S1 EXCEPT !.backends = << Backend1, [Backend1 EXCEPT !.id = "be-2", !.port = 0] >>]

\* A health check whose timeout equals its interval (fails validation).
LB_SlowCheck ==
  [LB_S1 EXCEPT !.healthCheck = << [HealthCheckHTTP("/health") EXCEPT !.timeout = 10] >>]

\* What the API may return in a tick.
Configs ==
  {LB_S1, LB_S4, LB_S3, LB_BadPath, LB_NoBackends, LB_BadBackend, LB_SlowCheck}

\* -------------------------------------------------------------------- paths
\* An absolute path is the sequence of its components.

\* The configuration directory D (/etc/envoy) and filepath.Dir(D).
ConfigDir == << "etc", "envoy" >>
Dir(p) == IF Len(p) = 0 THEN p ELSE SubSeq(p, 1, Len(p) - 1)

\* filepath.Clean of an absolute path: "." and empty components are dropped,
\* ".." drops the component before it and is itself dropped at the root.
RECURSIVE CleanFrom(_, _, _)
CleanFrom(p, i, acc) ==
  IF i > Len(p) THEN acc
  ELSE IF p[i] \in {".", ""} THEN CleanFrom(p, i + 1, acc)
  ELSE IF p[i] = ".." THEN CleanFrom(p, i + 1, Dir(acc))
  ELSE CleanFrom(p, i + 1, Append(acc, p[i]))

Clean(p) == CleanFrom(p, 1, << >>)

\* p == dir || strings.HasPrefix(p, dir + separator)
Within(p, dir) ==
  p = dir \/ (Len(p) > Len(dir) /\ SubSeq(p, 1, Len(dir)) = dir)

\* What filepath.EvalSymlinks(cleanPath) gives: the path itself, a
\* not-exist error, another error, or the path a symbolic link resolves to.
EvalSame == [err |-> Nil, to |-> << >>, same |-> TRUE]
EvalNotExist == [err |-> "not exist", to |-> << >>, same |-> FALSE]
EvalError == [err |-> "too many links", to |-> << >>, same |-> FALSE]
EvalTo(p) == [err |-> Nil, to |-> p, same |-> FALSE]
Evals ==
  {EvalSame, EvalNotExist, EvalError, EvalTo(<< "tmp", "x" >>),
   EvalTo(<< "etc", "envoy", "real.yaml" >>)}

\* Backend.Validate
BackendValidate(b) ==
  IF b.id = "" THEN "ErrInvalidBackendID"
  ELSE IF b.address = "" THEN "ErrInvalidBackendAddress"
  ELSE IF b.address \notin IPAddresses /\ b.address \notin HostnameMatches
       THEN "ErrInvalidBackendAddress"
  ELSE IF b.port <= 0 \/ b.port > 65535 THEN "ErrInvalidBackendPort"
  ELSE IF b.weight < 0 THEN "ErrInvalidBackendWeight"
  ELSE Nil

\* HealthCheck.Validate
HealthCheckValidate(h) ==
  IF h.type \notin {"tcp", "http", "https"} THEN "ErrInvalidHealthCheckType"
  ELSE IF h.interval <= 0 THEN "ErrInvalidHealthCheckInterval"
  ELSE IF h.timeout <= 0 THEN "ErrInvalidHealthCheckTimeout"
  ELSE IF h.timeout >= h.interval THEN "ErrHealthCheckTimeoutTooLong"
  ELSE IF h.unhealthyThreshold <= 0 THEN "ErrInvalidUnhealthyThreshold"
  ELSE IF h.healthyThreshold <= 0 THEN "ErrInvalidHealthyThreshold"
  ELSE IF h.type \in {"http", "https"} /\ h.path = "" THEN "ErrMissingHealthCheckPath"
  ELSE Nil

\* HealthCheck.IsHTTPBased
IsHTTPBased(h) == h.type = "http" \/ h.type = "https"

\* defaultTLSCertDir, /etc/vpsie-lb/certs
defaultTLSCertDir == << "etc", "vpsie-lb", "certs" >>

\* filepath.EvalSymlinks on the host the agent runs on: one certificate file
\* is a symbolic link to a file outside the certificate directory, one a
\* link to a file inside it, one cannot be resolved; lb.pem and lb.key are
\* regular files and nothing else exists.
EvalSymlinks(p) ==
  IF p = << "etc", "vpsie-lb", "certs", "out.pem" >> THEN EvalTo(<< "tmp", "x" >>)
  ELSE IF p = << "etc", "vpsie-lb", "certs", "in.pem" >>
  THEN EvalTo(<< "etc", "vpsie-lb", "certs", "lb.pem" >>)
  ELSE IF p = << "etc", "vpsie-lb", "certs", "loop.pem" >> THEN EvalError
  ELSE IF p \in {<< "etc", "vpsie-lb", "certs", "lb.pem" >>,
                 << "etc", "vpsie-lb", "certs", "lb.key" >>}
  THEN EvalSame
  ELSE EvalNotExist

\* validateTLSFilePath
validateTLSFilePath(path, allowedDir) ==
  LET cleanPath == Clean(path)
      eval == EvalSymlinks(cleanPath)
  IN IF ~Within(cleanPath, allowedDir) THEN "path must be within"
     ELSE IF eval.err \notin {Nil, "not exist"}
     THEN "failed to evaluate symlinks"
     ELSE IF eval.err = Nil /\ ~eval.same /\ ~Within(eval.to, allowedDir)
     THEN "symlink points outside allowed directory"
     ELSE Nil

\* The empty string as a path.
NoPath == << >>

\* TLSConfig.Validate
TLSConfigValidate(t) ==
  IF t.certificatePath = NoPath THEN "ErrMissingCertificate"
  ELSE IF t.privateKeyPath = NoPath THEN "ErrMissingPrivateKey"
  ELSE IF validateTLSFilePath(t.certificatePath, defaultTLSCertDir) # Nil
       THEN "invalid certificate path"
  ELSE IF validateTLSFilePath(t.privateKeyPath, defaultTLSCertDir) # Nil
       THEN "invalid private key path"
  ELSE IF t.caCertPath # NoPath
          /\ validateTLSFilePath(t.caCertPath, defaultTLSCertDir) # Nil
       THEN "invalid CA certificate path"
  ELSE IF t.minVersion \notin ValidTLSVersions THEN "ErrInvalidTLSVersion"
  ELSE IF t.maxVersion # "" /\ t.maxVersion \notin ValidTLSVersions
       THEN "ErrInvalidTLSVersion"
  ELSE Nil

\* LoadBalancer.validateBasicFields
validateBasicFields(l) ==
  IF l.id = "" THEN "ErrInvalidID"
  ELSE IF l.name = "" THEN "ErrInvalidName"
  ELSE IF l.port <= 0 \/ l.port > 65535 THEN "ErrInvalidPort"
  ELSE IF l.protocol \notin {"http", "https", "tcp"} THEN "ErrInvalidProtocol"
  ELSE Nil

RECURSIVE FirstBackendError(_, _)
FirstBackendError(bs, i) ==
  IF i > Len(bs) THEN Nil
  ELSE IF BackendValidate(bs[i]) # Nil THEN BackendValidate(bs[i])
  ELSE FirstBackendError(bs, i + 1)

\* validateBackends accepting an empty list of backends.
validateBackendsAllowsNone(l) == FirstBackendError(l.backends, 1)

\* LoadBalancer.validateBackends
validateBackends(l) ==
  IF Len(l.backends) = 0 THEN "ErrNoBackends"
  ELSE FirstBackendError(l.backends, 1)

\* validateTLSConfig without the check that HTTPS has a TLSConfig.
validateTLSConfigOptional(l) ==
  IF l.tlsConfig # NilPtr THEN TLSConfigValidate(l.tlsConfig[1]) ELSE Nil

\* LoadBalancer.validateTLSConfig
validateTLSConfig(l) ==
  IF l.protocol = "https" /\ l.tlsConfig = NilPtr THEN "ErrMissingTLSConfig"
  ELSE IF l.tlsConfig # NilPtr THEN TLSConfigValidate(l.tlsConfig[1])
  ELSE Nil

\* LoadBalancer.validateHealthCheck
validateHealthCheck(l) ==
  IF l.healthCheck # NilPtr THEN HealthCheckValidate(l.healthCheck[1]) ELSE Nil

\* Validate checking the TLS configuration before the backends.
ValidateTLSFirst(l) ==
  IF validateBasicFields(l) # Nil THEN validateBasicFields(l)
  ELSE IF validateTLSConfig(l) # Nil THEN validateTLSConfig(l)
  ELSE IF validateBackends(l) # Nil THEN validateBackends(l)
  ELSE validateHealthCheck(l)

\* LoadBalancer.Validate
Validate(l) ==
  IF validateBasicFields(l) # Nil THEN validateBasicFields(l)
  ELSE IF validateBackends(l) # Nil THEN validateBackends(l)
  ELSE IF validateTLSConfig(l) # Nil THEN validateTLSConfig(l)
  ELSE validateHealthCheck(l)

\* ------------------------------------------------------------ fingerprint

\* A field tagged omitempty: left out (<< >>) when it holds its zero value.
OmitEmpty(v, zero) == IF v = zero THEN << >> ELSE << v >>

\* json.Marshal of a Backend
MarshalBackend(b) ==
  [id |-> b.id, address |-> b.address, status |-> OmitEmpty(b.status, ""),
   port |-> b.port, weight |-> OmitEmpty(b.weight, 0), enabled |-> b.enabled]

\* json.Marshal of a HealthCheck
MarshalHealthCheck(h) ==
  [expected_status |-> OmitEmpty(h.expectedStatus, << >>),
   path |-> OmitEmpty(h.path, ""), type |-> h.type, interval |-> h.interval,
   timeout |-> h.timeout, unhealthy_threshold |-> h.unhealthyThreshold,
   healthy_threshold |-> h.healthyThreshold]

\* json.Marshal of a TLSConfig
MarshalTLSConfig(t) ==
  [certificate_path |-> t.certificatePath, private_key_path |-> t.privateKeyPath,
   ca_cert_path |-> OmitEmpty(t.caCertPath, NoPath),
   min_version |-> t.minVersion, max_version |-> OmitEmpty(t.maxVersion, "")]

\* json.Marshal(lb): the struct's fields under their JSON keys, the
\* omitempty ones left out when they hold their zero value (0, "", nil).
MarshalJSON(l) ==
  [id |-> l.id, name |-> l.name, protocol |-> l.protocol, port |-> l.port,
   algorithm |-> l.algorithm,
   backends |-> [i \in 1..Len(l.backends) |-> MarshalBackend(l.backends[i])],
   health_check |-> IF l.healthCheck = NilPtr THEN << >>
                    ELSE << MarshalHealthCheck(l.healthCheck[1]) >>,
   tls_config |-> IF l.tlsConfig = NilPtr THEN << >>
                  ELSE << MarshalTLSConfig(l.tlsConfig[1]) >>,
   timeouts |-> l.timeouts,
   max_connections |-> OmitEmpty(l.maxConnections, 0),
   created_at |-> l.createdAt, updated_at |-> l.updatedAt]

\* The zero value of Agent.lastConfigHash, the empty string; a digest is a
\* sequence of length 1.
EmptyHash == << >>

\* computeConfigHash taking the branch for a failed json.Marshal: the
\* fingerprint is made of UpdatedAt, len(Backends) and Port.
computeConfigHashFallback(l) == << l.updatedAt, Len(l.backends), l.port >>

\* Agent.computeConfigHash: hex(sha256(json.Marshal(lb))).  SHA-256 is taken
\* to be collision-free, so a digest is shown as the bytes it was computed of.
computeConfigHash(l) == << MarshalJSON(l) >>

\* A comparison that never finds the configuration unchanged.
ConfigUnchangedNever(h, last) == FALSE

\* The comparison `configHash == a.lastConfigHash` of syncConfiguration.
ConfigUnchanged(h, last) == h = last

\* --------------------------------------------------------------- renderer

\* validateAddress (generator)
validateAddress(addr) ==
  IF addr = "" THEN "address must not be empty"
  ELSE IF addr \in IPAddresses THEN Nil
  ELSE IF addr \notin HostnameMatches THEN "invalid address"
  ELSE Nil

\* validateHealthCheckPath (generator)
validateHealthCheckPath(path) ==
  IF path = "" THEN Nil
  ELSE IF path \notin SafeHealthCheckPaths THEN "invalid health check path"
  ELSE Nil

\* Generator.GenerateListener: the data handed to the listener template.
GenerateListener(l) ==
  IF l.protocol \notin {"http", "https", "tcp"}
  THEN [err |-> "unsupported protocol", doc |-> << >>]
  ELSE [err |-> Nil,
        doc |-> << [name |-> << "listener", l.protocol, l.port >>,
                    port |-> l.port,
                    statPrefix |-> << l.protocol, l.port >>,
                    clusterName |-> << "cluster", l.id >>,
                    routeConfig |-> l.protocol \in {"http", "https"},
                    tlsConfig |-> IF l.protocol = "https" THEN l.tlsConfig ELSE NilPtr,
                    timeouts |-> l.timeouts] >>]

\* The endpoints loop of GenerateCluster: the first enabled backend whose
\* address the renderer refuses.
RECURSIVE FirstAddressError(_, _)
FirstAddressError(bs, i) ==
  IF i > Len(bs) THEN Nil
  ELSE IF bs[i].enabled /\ validateAddress(bs[i].address) # Nil
       THEN validateAddress(bs[i].address)
  ELSE FirstAddressError(bs, i + 1)

RECURSIVE Endpoints(_, _)
Endpoints(bs, i) ==
  IF i > Len(bs) THEN << >>
  ELSE IF ~bs[i].enabled THEN Endpoints(bs, i + 1)
  ELSE << [address |-> bs[i].address, port |-> bs[i].port,
           weight |-> IF bs[i].weight > 0 THEN bs[i].weight ELSE 0] >>
       \o Endpoints(bs, i + 1)

\* Generator.GenerateCluster: the data handed to the cluster template.
GenerateCluster(l) ==
  IF FirstAddressError(l.backends, 1) # Nil
  THEN [err |-> FirstAddressError(l.backends, 1), doc |-> << >>]
  ELSE IF /\ l.healthCheck # NilPtr
          /\ IsHTTPBased(l.healthCheck[1])
          /\ validateHealthCheckPath(l.healthCheck[1].path) # Nil
  THEN [err |-> "invalid health check config", doc |-> << >>]
  ELSE [err |-> Nil,
        doc |-> << [name |-> << "cluster", l.id >>,
                    loadBalancingAlgo |-> l.algorithm,
                    endpoints |-> Endpoints(l.backends, 1),
                    healthCheck |-> l.healthCheck] >>]

\* Generator.GenerateFullConfig: validate, render the listener, render the
\* cluster.  err # Nil means no EnvoyConfig is returned.
GenerateFullConfig(l) ==
  IF Validate(l) # Nil
  THEN [err |-> "invalid load balancer config", cfg |-> << >>]
  ELSE IF GenerateListener(l).err # Nil
  THEN [err |-> "failed to generate listener", cfg |-> << >>]
  ELSE IF GenerateCluster(l).err # Nil
  THEN [err |-> "failed to generate cluster", cfg |-> << >>]
  ELSE [err |-> Nil,
        cfg |-> << [listeners |-> GenerateListener(l).doc[1],
                    clusters |-> GenerateCluster(l).doc[1]] >>]

\* ------------------------------------------------------------ on-disk store

\* The two managed files, in the order every store loop visits them.
Files == << "listeners.yaml", "clusters.yaml" >>
FileSet == {Files[i] : i \in 1..Len(Files)}

\* File contents.  data is << >> for an empty file and << doc >> for a
\* rendered document; trunc marks what a failed, non-atomic os.WriteFile may
\* leave behind (the file opened with O_TRUNC and not completely written).
Missing == [exists |-> FALSE, trunc |-> FALSE, data |-> << >>]
EmptyFile == [exists |-> TRUE, trunc |-> FALSE, data |-> << >>]
Truncated == [exists |-> TRUE, trunc |-> TRUE, data |-> << >>]
FileOf(doc) == [exists |-> TRUE, trunc |-> FALSE, data |-> << doc >>]

\* EnvoyConfig.Listeners / EnvoyConfig.Clusters by file name.
ConfigData(cfg, f) == IF f = "listeners.yaml" THEN cfg.listeners ELSE cfg.clusters

\* The file system under the configuration directory D:
\*   live[f]  D/f            tmp[f]  D/f.tmp
\*   bak[f]   D/.backup/f    bakDir  whether D/.backup exists
FreshDir ==
  [live |-> [f \in FileSet |-> Missing], tmp |-> [f \in FileSet |-> Missing],
   bak |-> [f \in FileSet |-> Missing], bakDir |-> FALSE]

\* The directory as the image build leaves it: both managed files touched.
ImageDir == [FreshDir EXCEPT !.live = [f \in FileSet |-> EmptyFile]]

\* Where a store operation can fail: << 0, "none" >> is no failure, otherwise
\* << i, step >> makes `step` fail while Files[i] is handled.
NoFault == << 0, "none" >>
AtomicWriteSteps == {"path", "mkdir", "tmpwrite", "tmpwrite_partial", "rename"}
ApplyFaults == {NoFault} \cup ((1..Len(Files)) \X AtomicWriteSteps)
CopySteps == {"read", "write", "write_partial"}
BackupFaults == {NoFault, << 0, "mkdir" >>} \cup ((1..Len(Files)) \X CopySteps)
RestoreFaults == {NoFault} \cup ((1..Len(Files)) \X CopySteps)

\* atomicWrite writing the managed file itself instead of a temp file.
atomicWriteInPlace(fs, f, doc, step) ==
  IF step \in {"path", "mkdir", "tmpwrite", "rename"}
  THEN [fs |-> fs, err |-> "failed to write file"]
  ELSE IF step = "tmpwrite_partial"
  THEN [fs |-> [fs EXCEPT !.live[f] = Truncated], err |-> "failed to write file"]
  ELSE [fs |-> [fs EXCEPT !.live[f] = FileOf(doc)], err |-> Nil]

\* ConfigManager.atomicWrite (through writeConfigFile): validatePath,
\* MkdirAll, write <name>.tmp, rename it over the file; the temp file is
\* removed when the rename fails.
atomicWrite(fs, f, doc, step) ==
  IF step = "path" THEN [fs |-> fs, err |-> "path traversal attempt detected"]
  ELSE IF step = "mkdir" THEN [fs |-> fs, err |-> "failed to create directory"]
  ELSE IF step = "tmpwrite" THEN [fs |-> fs, err |-> "failed to write temp file"]
  ELSE IF step = "tmpwrite_partial"
  THEN [fs |-> [fs EXCEPT !.tmp[f] = Truncated], err |-> "failed to write temp file"]
  ELSE IF step = "rename"
  THEN [fs |-> [fs EXCEPT !.tmp[f] = Missing], err |-> "failed to rename temp file"]
  ELSE [fs |-> [fs EXCEPT !.live[f] = FileOf(doc), !.tmp[f] = Missing], err |-> Nil]

\* The step that fails while Files[i] is handled, under fault.
StepAt(fault, i) == IF fault[1] = i THEN fault[2] ELSE "none"

\* ConfigManager.ApplyConfig: WriteListeners, then WriteClusters; the first
\* error is returned and the second file is then not written.
RECURSIVE ApplyFrom(_, _, _, _)
ApplyFrom(fs, cfg, fault, i) ==
  IF i > Len(Files) THEN [fs |-> fs, err |-> Nil]
  ELSE LET w == atomicWrite(fs, Files[i], ConfigData(cfg, Files[i]), StepAt(fault, i))
       IN IF w.err # Nil THEN w ELSE ApplyFrom(w.fs, cfg, fault, i + 1)

ApplyConfig(fs, cfg, fault) == ApplyFrom(fs, cfg, fault, 1)

\* CopyFile treating a missing source as a read error.
CopyFileMissingIsError(src, dst, step) ==
  IF step = "read" \/ ~src.exists THEN [dst |-> dst, err |-> "failed to read"]
  ELSE IF step = "write" THEN [dst |-> dst, err |-> "failed to write"]
  ELSE IF step = "write_partial" THEN [dst |-> Truncated, err |-> "failed to write"]
  ELSE [dst |-> src, err |-> Nil]

\* One iteration of the copy loop of BackupConfig / RestoreConfig: read src
\* (a missing file is skipped), os.WriteFile it to dst.  A failed write leaves
\* dst as it was ("write") or truncated ("write_partial").
CopyFile(src, dst, step) ==
  IF step = "read" THEN [dst |-> dst, err |-> "failed to read"]
  ELSE IF ~src.exists THEN [dst |-> dst, err |-> Nil]
  ELSE IF step = "write" THEN [dst |-> dst, err |-> "failed to write"]
  ELSE IF step = "write_partial" THEN [dst |-> Truncated, err |-> "failed to write"]
  ELSE [dst |-> src, err |-> Nil]

RECURSIVE BackupFrom(_, _, _)
BackupFrom(fs, fault, i) ==
  IF i > Len(Files) THEN [fs |-> fs, err |-> Nil]
  ELSE LET f == Files[i]
           c == CopyFile(fs.live[f], fs.bak[f], StepAt(fault, i))
           fs1 == [fs EXCEPT !.bak[f] = c.dst]
       IN IF c.err # Nil THEN [fs |-> fs1, err |-> c.err]
          ELSE BackupFrom(fs1, fault, i + 1)

\* ConfigManager.BackupConfig: MkdirAll(D/.backup), then copy each managed
\* file that exists into it.
BackupConfig(fs, fault) ==
  IF fault = << 0, "mkdir" >>
  THEN [fs |-> fs, err |-> "failed to create backup directory"]
  ELSE BackupFrom([fs EXCEPT !.bakDir = TRUE], fault, 1)

RECURSIVE RestoreFrom(_, _, _)
RestoreFrom(fs, fault, i) ==
  IF i > Len(Files) THEN [fs |-> fs, err |-> Nil]
  ELSE LET f == Files[i]
           c == CopyFile(fs.bak[f], fs.live[f], StepAt(fault, i))
           fs1 == [fs EXCEPT !.live[f] = c.dst]
       IN IF c.err # Nil THEN [fs |-> fs1, err |-> c.err]
          ELSE RestoreFrom(fs1, fault, i + 1)

\* RestoreConfig whose loop stops after the first managed file.
RestoreConfigSkipsClusters(fs, fault) ==
  LET c == CopyFile(fs.bak[Files[1]], fs.live[Files[1]], StepAt(fault, 1))
  IN [fs |-> [fs EXCEPT !.live[Files[1]] = c.dst], err |-> c.err]

\* ConfigManager.RestoreConfig: copy each backup copy that exists back over
\* its managed file.
RestoreConfig(fs, fault) == RestoreFrom(fs, fault, 1)

\* --------------------------------------------------------- hot-restart driver

\* Reload without the rollback of the epoch on a spawn failure.
ReloadNoRollback(e, spawnOK) ==
  [epoch |-> e + 1, arg |-> e + 1,
   err |-> IF spawnOK THEN Nil ELSE "failed to start new Envoy process"]

\* Reload handing the proxy the epoch read before the increment.
ReloadStaleEpoch(e, spawnOK) ==
  IF ~spawnOK
  THEN [epoch |-> e, arg |-> e, err |-> "failed to start new Envoy process"]
  ELSE [epoch |-> e + 1, arg |-> e, err |-> Nil]

\* Reloader.Reload under its mutex: newEpoch := currentEpoch.Add(1); spawn the
\* proxy with --restart-epoch newEpoch; on a spawn failure currentEpoch.Add(-1).
\* arg is the epoch handed to the proxy.
Reload(e, spawnOK) ==
  LET newEpoch == e + 1
  IN IF ~spawnOK
     THEN [epoch |-> newEpoch - 1, arg |-> newEpoch,
           err |-> "failed to start new Envoy process"]
     ELSE [epoch |-> newEpoch, arg |-> newEpoch, err |-> Nil]

\* Reloader.GetCurrentEpoch
GetCurrentEpoch(e) == e

\* ------------------------------------------------------------- API client

\* The retries GetLoadBalancerConfig allows doWithRetry.
MaxRetries == 3
Attempts == 0..MaxRetries

\* What one c.httpClient.Do(req) gives: a response by its status, or an error.
Statuses == {"200", "404", "503"}
NetErr == "neterr"
CtxErr == "context done"

\* The servers tried: the first k requests get a 503, the later ones `final`.
Responses ==
  {[a \in Attempts |-> IF a < k THEN "503" ELSE final] :
     k \in 0..(MaxRetries + 1), final \in {"200", "404", NetErr}}

\* The request's context (the caller's, with the 10 s timeout) is done before
\* the attempt numbered doneAt is issued; MaxRetries + 1: not during the loop.
DoneAts == 0..(MaxRetries + 1)

\* fn(): httpClient.Do under a done context returns the context's error.
Do(fn, doneAt, attempt) == IF attempt >= doneAt THEN CtxErr ELSE fn[attempt]

\* A retry after every outcome other than a 200.
RetryableUnlessOK(o) == o # "200"

\* err != nil || resp.StatusCode >= 500
Retryable(o) == o \in {NetErr, CtxErr, "500", "503"}

\* time.Duration(1<<uint(attempt)) * time.Second, in seconds
Backoff(attempt) == 2 ^ attempt

\* The loop of doWithRetry from `attempt` on.  calls and waits count the
\* requests issued and the seconds slept; lateCalls and lateWaits count the
\* requests issued and the sleeps begun with the context already done;
\* outcomes lists what each request gave and backoffs each sleep, in order.
RECURSIVE RetryFrom(_, _, _, _)
RetryFrom(fn, doneAt, maxRetries, attempt) ==
  LET o == Do(fn, doneAt, attempt)
      late == IF attempt >= doneAt THEN 1 ELSE 0
  IN IF Retryable(o) /\ attempt < maxRetries
     THEN LET r == RetryFrom(fn, doneAt, maxRetries, attempt + 1)
          IN [resp |-> r.resp, calls |-> r.calls + 1,
              waits |-> r.waits + Backoff(attempt),
              lateCalls |-> r.lateCalls + late, lateWaits |-> r.lateWaits + late,
              outcomes |-> << o >> \o r.outcomes,
              backoffs |-> << Backoff(attempt) >> \o r.backoffs]
     ELSE [resp |-> o, calls |-> 1, waits |-> 0,
           lateCalls |-> late, lateWaits |-> 0,
           outcomes |-> << o >>, backoffs |-> << >>]

\* doWithRetry(fn, maxRetries)
doWithRetry(fn, doneAt, maxRetries) == RetryFrom(fn, doneAt, maxRetries, 0)

\* Nothing was done under a done context.
NoLate == [calls |-> 0, waits |-> 0]

\* VPSieClient.GetLoadBalancerConfig: doWithRetry(..., 3); an error or a
\* status other than 200 is an error.
GetLoadBalancerConfig(fn, doneAt) ==
  LET r == doWithRetry(fn, doneAt, MaxRetries)
  IN [err |-> IF r.resp \in {NetErr, CtxErr} THEN "failed to execute request"
              ELSE IF r.resp # "200" THEN "API returned status"
              ELSE Nil,
      calls |-> r.calls, waits |-> r.waits,
      late |-> [calls |-> r.lateCalls, waits |-> r.lateWaits],
      outcomes |-> r.outcomes, backoffs |-> r.backoffs]

\* The statuses the PUT and POST operations accept.
StatusOK == "200"
StatusCreated == "201"
StatusNoContent == "204"

\* A PUT or POST: one c.httpClient.Do(req); an error or a status not in
\* accepted is an error.
doOnce(fn, doneAt, accepted) ==
  LET o == Do(fn, doneAt, 0)
  IN [err |-> IF o \in {NetErr, CtxErr} THEN "failed to execute request"
              ELSE IF o \notin accepted THEN "API returned status"
              ELSE Nil,
      calls |-> 1, waits |-> 0,
      late |-> [calls |-> IF doneAt = 0 THEN 1 ELSE 0, waits |-> 0],
      outcomes |-> << o >>, backoffs |-> << >>]

\* VPSieClient.UpdateLoadBalancerStatus (reportStatus)
UpdateLoadBalancerStatus(fn, doneAt) == doOnce(fn, doneAt, {StatusOK, StatusNoContent})

\* VPSieClient.UpdateBackendStatus (reportBackendHealth)
UpdateBackendStatus(fn, doneAt) == doOnce(fn, doneAt, {StatusOK, StatusNoContent})

\* VPSieClient.ReportMetrics (postMetrics)
ReportMetrics(fn, doneAt) == doOnce(fn, doneAt, {StatusOK, StatusCreated})

\* VPSieClient.SendEvent (sendEvent)
SendEvent(fn, doneAt) == doOnce(fn, doneAt, {StatusOK, StatusCreated})

\* ------------------------------------------------------ reconciliation engine

VARIABLES
  pc,              \* the worker's position in Start / syncConfiguration
  running,         \* Agent.running
  ctxDone,         \* the context passed to Start has been cancelled
  lastConfigHash,  \* Agent.lastConfigHash
  epoch,           \* Reloader.currentEpoch
  fs,              \* the files under the configuration directory
  lb,              \* syncConfiguration's lb: << >> before the fetch returned one
  configHash,      \* syncConfiguration's configHash
  envoyConfig,     \* syncConfiguration's envoyConfig
  ticks,           \* reconciliations started so far
  ops,             \* history: the calls of the current reconciliation, in order
  start,           \* history: fs, epoch, fingerprint when it began
  result,          \* history: how the current (or last) reconciliation ended
  prev,            \* history: lb and result of the reconciliation before it
  spawned,         \* history: --restart-epoch of every proxy spawned
  reloads,         \* history: --restart-epoch computed by every Reload call
  fetchLate,       \* history: what the current fetch did under a done context
  call             \* one library operation on its own: its input and result

vars == << pc, running, ctxDone, lastConfigHash, epoch, fs, lb, configHash,
           envoyConfig, ticks, ops, start, result, prev, spawned, reloads,
           fetchLate, call >>

\* No library operation is exercised on its own.
NoCall == [fn |-> "none"]

\* One call of the current reconciliation.
Op(name, ok, arg) == [op |-> name, ok |-> ok, arg |-> arg]
NoArg == << >>

\* Metadata built from the fingerprint recorded before this reconciliation.
EventMetadataStaleHash(h, last, e) == << last, e >>

\* The metadata of the config_updated event: config_hash and epoch.
EventMetadata(h, last, e) == << h, e >>

\* NewAgent: nothing fetched, the epoch 0, the running flag false.  The
\* configuration directory is new or as the image build left it.
Init ==
  /\ pc = "new"
  /\ running = FALSE
  /\ ctxDone = FALSE
  /\ lastConfigHash = EmptyHash
  /\ epoch = 0
  /\ fs \in {FreshDir, ImageDir}
  /\ lb = << >>
  /\ configHash = EmptyHash
  /\ envoyConfig = << >>
  /\ ticks = 0
  /\ ops = << >>
  /\ start = [fs |-> fs, epoch |-> 0, hash |-> EmptyHash, applied |-> << >>]
  /\ result = "none"
  /\ prev = [lb |-> << >>, result |-> "none"]
  /\ spawned = << >>
  /\ reloads = << >>
  /\ fetchLate = NoLate
  /\ call = NoCall

\* The LoadBalancer of the most recent reconciliation that ended in success
\* when the current one began (<< >>: none yet).
AppliedNow ==
  IF result = "ok" THEN lb ELSE start.applied

\* Entering syncConfiguration.
BeginSync ==
  /\ pc' = "fetch"
  /\ ticks' = ticks + 1
  /\ prev' = [lb |-> lb, result |-> result]
  /\ start' = [fs |-> fs, epoch |-> epoch, hash |-> lastConfigHash,
               applied |-> AppliedNow]
  /\ lb' = << >>
  /\ configHash' = EmptyHash
  /\ envoyConfig' = << >>
  /\ ops' = << >>
  /\ result' = "running"
  /\ fetchLate' = NoLate

\* Start returning when syncConfiguration returned an error.
ReturnEndsStartOnError(res) ==
  /\ pc' = IF res \in {"ok", "noop"} THEN "select" ELSE "returned"
  /\ result' = res

\* syncConfiguration returns to Start, which logs an error and waits in select.
Return(res) ==
  /\ pc' = "select"
  /\ result' = res

\* Agent.Start up to the initial sync.
Start ==
  /\ pc = "new"
  /\ running' = TRUE
  /\ BeginSync
  /\ UNCHANGED << call, ctxDone, lastConfigHash, epoch, fs, spawned,
                  reloads >>

\* A poll tick starting a reconciliation without waiting for the select.
TickWithoutWaiting ==
  /\ pc \notin {"new", "returned"}
  /\ ticks < MaxTicks
  /\ BeginSync
  /\ UNCHANGED << call, running, ctxDone, lastConfigHash, epoch, fs, spawned,
                  reloads >>

\* The select of Start takes ticker.C.
Tick ==
  /\ pc = "select"
  /\ ticks < MaxTicks
  /\ BeginSync
  /\ UNCHANGED << call, running, ctxDone, lastConfigHash, epoch, fs, spawned,
                  reloads >>

\* The select of Start takes ctx.Done(): Start returns nil.
CtxDone ==
  /\ pc = "select"
  /\ ctxDone
  /\ pc' = "returned"
  /\ running' = FALSE
  /\ UNCHANGED << call, ctxDone, lastConfigHash, epoch, fs, lb, configHash,
                  envoyConfig, ticks, ops, start, result, prev, spawned,
                  reloads, fetchLate >>

\* The caller of Start cancels the context (main, on SIGINT or SIGTERM).
Cancel ==
  /\ ~ctxDone
  /\ pc # "returned"
  /\ ctxDone' = TRUE
  /\ UNCHANGED << call, pc, running, lastConfigHash, epoch, fs, lb, configHash,
                  envoyConfig, ticks, ops, start, result, prev, spawned,
                  reloads, fetchLate >>

\* Agent.Stop, called by the owner of the agent at any time: it stores false
\* in the running flag.
Stop ==
  /\ running' = FALSE
  /\ UNCHANGED << call, pc, ctxDone, lastConfigHash, epoch, fs, lb, configHash,
                  envoyConfig, ticks, ops, start, result, prev, spawned,
                  reloads, fetchLate >>

\* Agent.IsRunning
IsRunning == running

\* lb, err := a.vpsieClient.GetLoadBalancerConfig(ctx).  The request's
\* context is done from the first attempt on exactly when ctx is cancelled;
\* otherwise its own deadline may pass before any later attempt.
SyncFetch ==
  /\ pc = "fetch"
  /\ \E fn \in Responses, doneAt \in DoneAts :
       /\ doneAt = 0 <=> ctxDone
       /\ LET r == GetLoadBalancerConfig(fn, doneAt)
          IN /\ fetchLate' = r.late
             /\ IF r.err # Nil
                THEN Return("fetch_err") /\ UNCHANGED lb
                ELSE /\ \E l \in Configs : lb' = << l >>
                     /\ pc' = "validate"
                     /\ UNCHANGED result
  /\ UNCHANGED << call, running, ctxDone, lastConfigHash, epoch, fs, configHash,
                  envoyConfig, ticks, ops, start, prev, spawned, reloads >>

\* err = lb.Validate()
SyncValidate ==
  /\ pc = "validate"
  /\ IF Validate(lb[1]) # Nil
     THEN Return("invalid")
     ELSE pc' = "compare" /\ UNCHANGED result
  /\ UNCHANGED << call, running, ctxDone, lastConfigHash, epoch, fs, lb, configHash,
                  envoyConfig, ticks, ops, start, prev, spawned,
                  reloads, fetchLate >>

\* configHash := a.computeConfigHash(lb); unchanged: return nil.
SyncCompare ==
  /\ pc = "compare"
  /\ configHash' = computeConfigHash(lb[1])
  /\ IF ConfigUnchanged(configHash', lastConfigHash)
     THEN Return("noop")
     ELSE pc' = "backup" /\ UNCHANGED result
  /\ UNCHANGED << call, running, ctxDone, lastConfigHash, epoch, fs, lb,
                  envoyConfig, ticks, ops, start, prev, spawned,
                  reloads, fetchLate >>

\* SyncBackup returning the backup's error instead of logging it.
SyncBackupAborts ==
  /\ pc = "backup"
  /\ \E fault \in BackupFaults :
       LET r == BackupConfig(fs, fault)
       IN /\ fs' = r.fs
          /\ ops' = Append(ops, Op("backup", r.err = Nil, NoArg))
          /\ IF r.err # Nil
             THEN Return("backup_err")
             ELSE pc' = "generate" /\ UNCHANGED result
  /\ UNCHANGED << call, running, ctxDone, lastConfigHash, epoch, lb, configHash,
                  envoyConfig, ticks, start, prev, spawned,
                  reloads, fetchLate >>

\* err = a.envoyManager.BackupConfig(); an error is logged and the
\* reconciliation goes on.
SyncBackup ==
  /\ pc = "backup"
  /\ \E fault \in BackupFaults :
       LET r == BackupConfig(fs, fault)
       IN /\ fs' = r.fs
          /\ ops' = Append(ops, Op("backup", r.err = Nil, NoArg))
  /\ pc' = "generate"
  /\ UNCHANGED << call, running, ctxDone, lastConfigHash, epoch, lb, configHash,
                  envoyConfig, ticks, start, result, prev, spawned,
                  reloads, fetchLate >>

\* envoyConfig, err = a.envoyGenerator.GenerateFullConfig(lb)
SyncGenerate ==
  /\ pc = "generate"
  /\ LET r == GenerateFullConfig(lb[1])
     IN /\ ops' = Append(ops, Op("generate", r.err = Nil, NoArg))
        /\ envoyConfig' = r.cfg
        /\ IF r.err # Nil
           THEN Return("render_err")
           ELSE pc' = "apply" /\ UNCHANGED result
  /\ UNCHANGED << call, running, ctxDone, lastConfigHash, epoch, fs, lb, configHash,
                  ticks, start, prev, spawned,
                  reloads, fetchLate >>

\* SyncApply going on to the reload whatever ApplyConfig returned.
SyncApplyIgnoresError ==
  /\ pc = "apply"
  /\ \E fault \in ApplyFaults :
       LET r == ApplyConfig(fs, envoyConfig[1], fault)
       IN /\ fs' = r.fs
          /\ ops' = Append(ops, Op("apply", r.err = Nil, NoArg))
  /\ pc' = "reload"
  /\ UNCHANGED << call, running, ctxDone, lastConfigHash, epoch, lb, configHash,
                  envoyConfig, ticks, start, result, prev, spawned,
                  reloads, fetchLate >>

\* err = a.envoyManager.ApplyConfig(envoyConfig); an error is returned.
SyncApply ==
  /\ pc = "apply"
  /\ \E fault \in ApplyFaults :
       LET r == ApplyConfig(fs, envoyConfig[1], fault)
       IN /\ fs' = r.fs
          /\ ops' = Append(ops, Op("apply", r.err = Nil, NoArg))
          /\ IF r.err # Nil
             THEN Return("apply_err")
             ELSE pc' = "reload" /\ UNCHANGED result
  /\ UNCHANGED << call, running, ctxDone, lastConfigHash, epoch, lb, configHash,
                  envoyConfig, ticks, start, prev, spawned,
                  reloads, fetchLate >>

\* SyncReload recording the fingerprint before Reload has returned.
SyncReloadRecordsFirst ==
  /\ pc = "reload"
  /\ lastConfigHash' = configHash
  /\ \E spawnOK \in BOOLEAN :
       LET r == Reload(epoch, spawnOK)
       IN /\ epoch' = r.epoch
          /\ ops' = Append(ops, Op("reload", r.err = Nil, << r.arg >>))
          /\ spawned' = IF spawnOK THEN Append(spawned, r.arg) ELSE spawned
          /\ reloads' = Append(reloads, r.arg)
          /\ pc' = IF r.err # Nil THEN "restore" ELSE "record"
  /\ UNCHANGED << call, running, ctxDone, fs, lb, configHash,
                  envoyConfig, ticks, start, result, prev,
                  fetchLate >>

\* err = a.reloadEnvoy(): Reloader.Reload spawns the proxy, or fails to.
SyncReload ==
  /\ pc = "reload"
  /\ \E spawnOK \in BOOLEAN :
       LET r == Reload(epoch, spawnOK)
       IN /\ epoch' = r.epoch
          /\ ops' = Append(ops, Op("reload", r.err = Nil, << r.arg >>))
          /\ spawned' = IF spawnOK THEN Append(spawned, r.arg) ELSE spawned
          /\ reloads' = Append(reloads, r.arg)
          /\ pc' = IF r.err # Nil THEN "restore" ELSE "record"
  /\ UNCHANGED << call, running, ctxDone, lastConfigHash, fs, lb, configHash,
                  envoyConfig, ticks, start, result, prev,
                  fetchLate >>

\* SyncRestore recording the fingerprint although the reload failed.
SyncRestoreRecordsHash ==
  /\ pc = "restore"
  /\ lastConfigHash' = configHash
  /\ \E fault \in RestoreFaults :
       LET r == RestoreConfig(fs, fault)
       IN /\ fs' = r.fs
          /\ ops' = Append(ops, Op("restore", r.err = Nil, NoArg))
  /\ Return("reload_err")
  /\ UNCHANGED << call, running, ctxDone, epoch, lb, configHash,
                  envoyConfig, ticks, start, prev, spawned,
                  reloads, fetchLate >>

\* The reload failed: a.envoyManager.RestoreConfig() (its own error is only
\* logged), then the reload error is returned.
SyncRestore ==
  /\ pc = "restore"
  /\ \E fault \in RestoreFaults :
       LET r == RestoreConfig(fs, fault)
       IN /\ fs' = r.fs
          /\ ops' = Append(ops, Op("restore", r.err = Nil, NoArg))
  /\ Return("reload_err")
  /\ UNCHANGED << call, running, ctxDone, lastConfigHash, epoch, lb, configHash,
                  envoyConfig, ticks, start, prev, spawned,
                  reloads, fetchLate >>

\* The reload succeeded: a.lastConfigHash = configHash, then SendEvent
\* "config_updated" (its error is only logged), then return nil.  The POST
\* fails under a cancelled context.
SyncNotify ==
  /\ pc = "record"
  /\ lastConfigHash' = configHash
  /\ \E sent \in BOOLEAN :
       /\ ctxDone => ~sent
       /\ ops' = Append(ops, Op("event", sent,
                    EventMetadata(configHash, lastConfigHash, GetCurrentEpoch(epoch))))
  /\ Return("ok")
  /\ UNCHANGED << call, running, ctxDone, epoch, fs, lb, configHash, envoyConfig,
                  ticks, start, prev, spawned,
                  reloads, fetchLate >>

Next ==
  \/ Start
  \/ Tick
  \/ CtxDone
  \/ Cancel
  \/ Stop
  \/ SyncFetch
  \/ SyncValidate
  \/ SyncCompare
  \/ SyncBackup
  \/ SyncGenerate
  \/ SyncApply
  \/ SyncReload
  \/ SyncRestore
  \/ SyncNotify

Spec == Init /\ [][Next]_vars

\* ------------------------------------------------------ the bootstrap file

\* NewAgent: the config path given to NewReloader,
\* cfg.Envoy.ConfigPath + "/bootstrap.yaml", which Reload passes as -c.
ReloaderConfigPath(configPath) == Append(configPath, "bootstrap.yaml")

\* ConfigManager.WriteBootstrap: filepath.Join(filepath.Dir(cm.configDir),
\* "bootstrap.yaml").  syncConfiguration and NewAgent call neither
\* GenerateBootstrap nor WriteBootstrap, so no reconciliation has a step
\* that writes this file.
BootstrapPath(configDir) == Append(Dir(configDir), "bootstrap.yaml")

\* ---------------------------------------------------------------- main
\* cmd/agent main: agentInstance.Start(ctx) runs in a goroutine while main
\* waits in its select.  On SIGINT or SIGTERM main calls cancel(), then
\* agentInstance.Stop(), and returns, which ends the process with every
\* goroutine in it.  The case <-errChan of the select is never taken before
\* a signal: Start returns only after ctx is cancelled.

\* Reconciliations explored while main runs.
MainTicks == 2

\* main's position: in the select, after cancel(), after Stop(), exited.
MainAt(at) == [fn |-> "main", at |-> at]

\* The process has not exited: its goroutines can still take steps.
Alive == call.fn = "main" /\ call.at # "exited"

InitMain ==
  /\ pc = "new"
  /\ running = FALSE
  /\ ctxDone = FALSE
  /\ lastConfigHash = EmptyHash
  /\ epoch = 0
  /\ fs \in {FreshDir, ImageDir}
  /\ lb = << >>
  /\ configHash = EmptyHash
  /\ envoyConfig = << >>
  /\ ticks = 0
  /\ ops = << >>
  /\ start = [fs |-> fs, epoch |-> 0, hash |-> EmptyHash, applied |-> << >>]
  /\ result = "none"
  /\ prev = [lb |-> << >>, result |-> "none"]
  /\ spawned = << >>
  /\ reloads = << >>
  /\ fetchLate = NoLate
  /\ call = MainAt("select")

\* case <-sigChan: cancel()
MainCancel ==
  /\ call = MainAt("select")
  /\ ctxDone' = TRUE
  /\ call' = MainAt("cancelled")
  /\ UNCHANGED << pc, running, lastConfigHash, epoch, fs, lb, configHash,
                  envoyConfig, ticks, ops, start, result, prev, spawned,
                  reloads, fetchLate >>

\* agentInstance.Stop()
MainStop ==
  /\ call = MainAt("cancelled")
  /\ running' = FALSE
  /\ call' = MainAt("stopped")
  /\ UNCHANGED << pc, ctxDone, lastConfigHash, epoch, fs, lb, configHash,
                  envoyConfig, ticks, ops, start, result, prev, spawned,
                  reloads, fetchLate >>

\* main returns: the process exits.
MainExit ==
  /\ call = MainAt("stopped")
  /\ call' = MainAt("exited")
  /\ UNCHANGED << pc, running, ctxDone, lastConfigHash, epoch, fs, lb, configHash,
                  envoyConfig, ticks, ops, start, result, prev, spawned,
                  reloads, fetchLate >>

\* A step of the goroutine that runs agentInstance.Start(ctx).
MainGoroutine ==
  /\ Alive
  /\ \/ Start
     \/ ticks < MainTicks /\ Tick
     \/ CtxDone
     \/ SyncFetch
     \/ SyncValidate
     \/ SyncCompare
     \/ SyncBackup
     \/ SyncGenerate
     \/ SyncApply
     \/ SyncReload
     \/ SyncRestore
     \/ SyncNotify

NextMain ==
  \/ MainGoroutine
  \/ MainCancel
  \/ MainStop
  \/ MainExit

SpecMain == InitMain /\ [][NextMain]_vars

\* ----------------------------------------------------- library operations
\* The operations below are exercised one call at a time: call holds the
\* operation's name and input, and its result once the call has returned.

agentVars == << pc, running, ctxDone, lastConfigHash, epoch, fs, lb, configHash,
                envoyConfig, ticks, ops, start, result, prev, spawned, reloads,
                fetchLate >>

\* A call with its input, not yet made.
Pending(fn, in) == [fn |-> fn, in |-> in, out |-> << >>]

\* The call of fn has returned.
Returned(fn) == call.fn = fn /\ call.out # << >>

\* ------------------------------------------------------- store: writes

PathEscape == "path traversal attempt detected"

\* validatePath testing the path as given, before it is cleaned.
validatePathUncleaned(configDir, path, eval) ==
  IF ~Within(path, configDir) /\ ~Within(path, Dir(configDir))
  THEN PathEscape
  ELSE Nil

\* ConfigManager.validatePath
validatePath(configDir, path, eval) ==
  LET cleanPath == Clean(path)
      baseDir == Dir(configDir)
  IN IF ~Within(cleanPath, configDir) /\ ~Within(cleanPath, baseDir)
     THEN PathEscape
     ELSE IF eval.err \notin {Nil, "not exist"}
     THEN "failed to evaluate symlinks"
     ELSE IF eval.err = Nil /\ ~eval.same
             /\ ~Within(eval.to, configDir) /\ ~Within(eval.to, baseDir)
     THEN "symlink points outside allowed directories"
     ELSE Nil

\* One change of the file system: what was done, and to which path.
Effect(what, p) == [what |-> what, path |-> p]

\* tmpPath := path + ".tmp"
TmpPath(path) == Append(path, ".tmp")

\* ConfigManager.atomicWrite for a path of any shape.  effects lists the
\* changes made to the file system, in order; a failing MkdirAll or a failing
\* creation of the temp file ("tmpwrite") makes none.
atomicWriteAt(configDir, path, eval, step) ==
  LET v == validatePath(configDir, path, eval)
      mk == << Effect("mkdir", Dir(path)) >>
      wr == Append(mk, Effect("write", TmpPath(path)))
  IN IF v # Nil THEN [err |-> v, effects |-> << >>]
     ELSE IF step = "mkdir"
     THEN [err |-> "failed to create directory", effects |-> << >>]
     ELSE IF step = "tmpwrite"
     THEN [err |-> "failed to write temp file", effects |-> mk]
     ELSE IF step = "tmpwrite_partial"
     THEN [err |-> "failed to write temp file", effects |-> wr]
     ELSE IF step = "rename"
     THEN [err |-> "failed to rename temp file",
           effects |-> Append(wr, Effect("remove", TmpPath(path)))]
     ELSE [err |-> Nil, effects |-> Append(wr, Effect("rename", path))]

\* The paths handed to atomicWrite: the managed files, the bootstrap file, a
\* file in a subdirectory, and paths that leave D through "..".
WritePaths ==
  {<< "etc", "envoy", "listeners.yaml" >>,
   << "etc", "envoy", "sub", "x.yaml" >>,
   << "etc", "envoy", ".", "clusters.yaml" >>,
   << "etc", "envoy", "..", "bootstrap.yaml" >>,
   << "etc", "envoy", "..", "envoy", "clusters.yaml" >>,
   << "etc", "envoy", "..", "..", "tmp", "x.yaml" >>,
   << "etc", "envoy", "sub", "..", "..", "..", "root", "key" >>,
   << "etc", "envoyx", "listeners.yaml" >>,
   << "tmp", "x.yaml" >>,
   << "..", "etc", "envoy", "..", "..", "x.yaml" >>}

WriteCalls ==
  {Pending("atomicWrite", [path |-> p, eval |-> e]) : p \in WritePaths, e \in Evals}

\* cm.atomicWrite(path, data)
LibAtomicWrite ==
  /\ call.fn = "atomicWrite"
  /\ call.out = << >>
  /\ \E step \in (AtomicWriteSteps \ {"path"}) \cup {"none"} :
       call' = [call EXCEPT !.out =
                  << atomicWriteAt(ConfigDir, call.in.path, call.in.eval, step) >>]
  /\ UNCHANGED agentVars

\* ------------------------------------------------- store: backup and restore

\* The documents rendered for S1 and for S4.
DocsS1 == GenerateFullConfig(LB_S1).cfg[1]
DocsS4 == GenerateFullConfig(LB_S4).cfg[1]

\* A directory whose managed files hold the documents of cfg.
DirWith(cfg) ==
  [FreshDir EXCEPT !.live = [f \in FileSet |-> FileOf(ConfigData(cfg, f))]]

\* The directories BackupConfig and RestoreConfig are called in: new, as the
\* image build left it, holding rendered documents, holding only one managed
\* file, and holding backup copies of an earlier configuration.
StoreDirs ==
  {FreshDir, ImageDir, DirWith(DocsS1),
   [DirWith(DocsS1) EXCEPT !.live["clusters.yaml"] = Missing],
   [DirWith(DocsS4) EXCEPT !.bakDir = TRUE,
                           !.bak = [f \in FileSet |-> FileOf(ConfigData(DocsS1, f))]],
   [DirWith(DocsS4) EXCEPT !.bakDir = TRUE,
                           !.bak["listeners.yaml"] = FileOf(DocsS1.listeners)]}

NotCalled == "not called"

\* A sequence of store calls on one directory: dir is the directory now,
\* atBackup and afterBackup the directory when BackupConfig was called and
\* when it returned, atRestore the directory when RestoreConfig was called.
StoreCalls ==
  {[fn |-> "store", stage |-> "backup", dir |-> d, atBackup |-> d,
    afterBackup |-> d, atRestore |-> d, backupFault |-> NoFault,
    restoreFault |-> NoFault, backupErr |-> NotCalled,
    restoreErr |-> NotCalled] : d \in StoreDirs}

\* cm.BackupConfig()
LibBackup ==
  /\ call.fn = "store"
  /\ call.stage = "backup"
  /\ \E fault \in BackupFaults :
       LET r == BackupConfig(call.dir, fault)
       IN call' = [call EXCEPT !.stage = "change", !.atBackup = call.dir,
                               !.dir = r.fs, !.afterBackup = r.fs,
                               !.backupFault = fault, !.backupErr = r.err]
  /\ UNCHANGED agentVars

\* The live files change between the backup and the restore: ApplyConfig
\* writes new documents (or fails part-way), or a managed file is removed.
LibChange ==
  /\ call.fn = "store"
  /\ call.stage = "change"
  /\ \/ \E cfg \in {DocsS1, DocsS4}, fault \in ApplyFaults :
          call' = [call EXCEPT !.dir = ApplyConfig(call.dir, cfg, fault).fs]
     \/ \E f \in FileSet :
          call' = [call EXCEPT !.dir.live[f] = Missing]
  /\ UNCHANGED agentVars

\* cm.RestoreConfig()
LibRestore ==
  /\ call.fn = "store"
  /\ call.stage \in {"backup", "change"}
  /\ \E fault \in RestoreFaults :
       LET r == RestoreConfig(call.dir, fault)
       IN call' = [call EXCEPT !.stage = "done", !.atRestore = call.dir,
                               !.dir = r.fs, !.restoreFault = fault,
                               !.restoreErr = r.err]
  /\ UNCHANGED agentVars

\* -------------------------------------------------------------- API client

\* What the server answers to the requests of one operation, by attempt.
Outcomes == {"200", "404", "500", "503", NetErr}
Servers == [Attempts -> Outcomes]

\* The servers of a PUT or POST: the answer to the first request varies, a
\* further request would be answered with a 200.
ServersOnce ==
  {[a \in Attempts |-> IF a = 0 THEN first ELSE StatusOK] :
     first \in Outcomes \cup {StatusCreated, StatusNoContent}}

Fetch == "GetLoadBalancerConfig"
NonGetOps ==
  {"UpdateLoadBalancerStatus", "UpdateBackendStatus", "ReportMetrics", "SendEvent"}

ClientCalls ==
  {Pending(Fetch, [fn |-> fn, doneAt |-> d]) : fn \in Servers, d \in DoneAts}
    \cup {Pending(op, [fn |-> fn, doneAt |-> d]) :
            op \in NonGetOps, fn \in ServersOnce, d \in DoneAts}

\* c.GetLoadBalancerConfig(ctx)
LibGetLoadBalancerConfig ==
  /\ call.fn = Fetch
  /\ call.out = << >>
  /\ call' = [call EXCEPT !.out =
                << GetLoadBalancerConfig(call.in.fn, call.in.doneAt) >>]
  /\ UNCHANGED agentVars

\* c.UpdateLoadBalancerStatus(ctx, status)
LibUpdateLoadBalancerStatus ==
  /\ call.fn = "UpdateLoadBalancerStatus"
  /\ call.out = << >>
  /\ call' = [call EXCEPT !.out =
                << UpdateLoadBalancerStatus(call.in.fn, call.in.doneAt) >>]
  /\ UNCHANGED agentVars

\* c.UpdateBackendStatus(ctx, backendID, healthy)
LibUpdateBackendStatus ==
  /\ call.fn = "UpdateBackendStatus"
  /\ call.out = << >>
  /\ call' = [call EXCEPT !.out =
                << UpdateBackendStatus(call.in.fn, call.in.doneAt) >>]
  /\ UNCHANGED agentVars

\* c.ReportMetrics(ctx, metrics)
LibReportMetrics ==
  /\ call.fn = "ReportMetrics"
  /\ call.out = << >>
  /\ call' = [call EXCEPT !.out =
                << ReportMetrics(call.in.fn, call.in.doneAt) >>]
  /\ UNCHANGED agentVars

\* c.SendEvent(ctx, eventType, message, metadata)
LibSendEvent ==
  /\ call.fn = "SendEvent"
  /\ call.out = << >>
  /\ call' = [call EXCEPT !.out = << SendEvent(call.in.fn, call.in.doneAt) >>]
  /\ UNCHANGED agentVars

\* ------------------------------------------------- API client: construction
\* A host is shown by three things the code reads from its text: labels, the
\* text split at its dots; ip, what net.ParseIP(host) gives; lookup, the
\* first address net.LookupIP(host) gives.  An IPv4 address is its four
\* octets, an IPv6 address its first 16 bits and whether it is ::1.

NoIP == [v |-> 0, b |-> << >>, one |-> FALSE]
IP4(a, b, c, d) == [v |-> 4, b |-> << a, b, c, d >>, one |-> FALSE]
IP6(hextet) == [v |-> 6, b |-> << hextet >>, one |-> FALSE]
IP6Loopback == [v |-> 6, b |-> << 0 >>, one |-> TRUE]

HostName(labels, lookup) == [labels |-> labels, ip |-> NoIP, lookup |-> lookup]
HostIP(labels, ip) == [labels |-> labels, ip |-> ip, lookup |-> ip]

Hosts ==
  {HostName(<< "localhost" >>, IP4(127, 0, 0, 1)),
   HostName(<< "LOCALHOST" >>, IP4(127, 0, 0, 1)),
   HostName(<< "api", "vpsie", "com" >>, IP4(93, 184, 216, 34)),
   HostName(<< "vpsie", "com" >>, IP4(93, 184, 216, 34)),
   HostName(<< "eu", "api", "vpsie", "com" >>, NoIP),
   HostName(<< "internal", "vpsie", "com" >>, IP4(10, 0, 0, 5)),
   HostName(<< "notvpsie", "com" >>, IP4(93, 184, 216, 34)),
   HostName(<< "vpsie", "com", "evil", "org" >>, IP4(93, 184, 216, 34)),
   HostName(<< "127", "vpsie", "com" >>, IP4(93, 184, 216, 34)),
   HostName(<< "metadata", "internal" >>, NoIP),
   HostIP(<< "127", "0", "0", "1" >>, IP4(127, 0, 0, 1)),
   HostIP(<< "127", "255", "0", "3" >>, IP4(127, 255, 0, 3)),
   HostIP(<< "10", "0", "0", "1" >>, IP4(10, 0, 0, 1)),
   HostIP(<< "10", "255", "255", "255" >>, IP4(10, 255, 255, 255)),
   HostIP(<< "11", "0", "0", "1" >>, IP4(11, 0, 0, 1)),
   HostIP(<< "172", "15", "255", "255" >>, IP4(172, 15, 255, 255)),
   HostIP(<< "172", "16", "0", "1" >>, IP4(172, 16, 0, 1)),
   HostIP(<< "172", "31", "255", "255" >>, IP4(172, 31, 255, 255)),
   HostIP(<< "172", "32", "0", "1" >>, IP4(172, 32, 0, 1)),
   HostIP(<< "192", "168", "1", "1" >>, IP4(192, 168, 1, 1)),
   HostIP(<< "192", "169", "1", "1" >>, IP4(192, 169, 1, 1)),
   HostIP(<< "169", "254", "169", "254" >>, IP4(169, 254, 169, 254)),
   HostIP(<< "8", "8", "8", "8" >>, IP4(8, 8, 8, 8)),
   HostIP(<< "::1" >>, IP6Loopback),
   HostIP(<< "fc00::1" >>, IP6(64512)),
   HostIP(<< "fd00::1" >>, IP6(64768)),
   HostIP(<< "fdff::1" >>, IP6(65023)),
   HostIP(<< "fe80::1" >>, IP6(65152)),
   HostIP(<< "febf::1" >>, IP6(65215)),
   HostIP(<< "fec0::1" >>, IP6(65216)),
   HostIP(<< "2001:db8::1" >>, IP6(8193))}

\* ipNet.Contains(ip) for one of privateRanges
InPrivateRange(ip) ==
  \/ /\ ip.v = 4
     /\ \/ ip.b[1] = 10                                  \* 10.0.0.0/8
        \/ ip.b[1] = 172 /\ ip.b[2] \div 16 = 1          \* 172.16.0.0/12
        \/ ip.b[1] = 192 /\ ip.b[2] = 168                \* 192.168.0.0/16
        \/ ip.b[1] = 169 /\ ip.b[2] = 254                \* 169.254.0.0/16
  \/ /\ ip.v = 6
     /\ \/ ip.b[1] \div 256 = 253                        \* fd00::/8
        \/ ip.b[1] \div 64 = 1018                        \* fe80::/10

\* isPrivateOrLocalhost
isPrivateOrLocalhost(host) ==
  IF \/ host.labels = << "localhost" >>
     \/ (Len(host.labels) > 1 /\ host.labels[1] = "127")
     \/ host.labels = << "::1" >>
  THEN TRUE
  ELSE LET ip == IF host.ip # NoIP THEN host.ip ELSE host.lookup
       IN IF ip = NoIP THEN FALSE ELSE InPrivateRange(ip)

\* hostname == domain || strings.HasSuffix(hostname, "." + domain)
MatchesDomain(labels, domain) ==
  /\ Len(labels) >= Len(domain)
  /\ SubSeq(labels, Len(labels) - Len(domain) + 1, Len(labels)) = domain

AllowedDomains == {<< "api", "vpsie", "com" >>, << "vpsie", "com" >>}

\* validateHostname behaving as it does under TestMode, whatever the mode.
validateHostnameUnchecked(host, testMode) == Nil

\* validateHostname; testMode is the package variable TestMode.
validateHostname(host, testMode) ==
  IF testMode THEN Nil
  ELSE IF isPrivateOrLocalhost(host)
  THEN "base URL must not be localhost or private IP address"
  ELSE IF \E d \in AllowedDomains : MatchesDomain(host.labels, d) THEN Nil
  ELSE "base URL domain not in allowed list"

\* NewVPSieClient: u is the base URL as url.Parse sees it.
NewVPSieClient(u, testMode) ==
  LET err == IF ~u.parses THEN "invalid base URL"
             ELSE IF u.scheme \notin {"https", "http"}
             THEN "base URL must use HTTP or HTTPS scheme"
             ELSE validateHostname(u.host, testMode)
  IN [err |-> err, client |-> err = Nil]

BaseURLs ==
  {[parses |-> p, scheme |-> s, host |-> h] :
     p \in BOOLEAN, s \in {"https", "http", "ftp"}, h \in Hosts}

NewClientCalls ==
  {Pending("NewVPSieClient", [url |-> u, testMode |-> t]) :
     u \in BaseURLs, t \in BOOLEAN}

\* NewVPSieClient(apiKey, baseURL, loadBalancerID)
LibNewVPSieClient ==
  /\ call.fn = "NewVPSieClient"
  /\ call.out = << >>
  /\ call' = [call EXCEPT !.out =
                << NewVPSieClient(call.in.url, call.in.testMode) >>]
  /\ UNCHANGED agentVars

\* ---------------------------------------------------- API client: redirects

\* A request by the host and the scheme of its URL.
Request(host, scheme) == [host |-> host, scheme |-> scheme]

\* The CheckRedirect of the client's http.Client: req is the upcoming
\* request, via the requests made already, oldest first.
CheckRedirect(req, via) ==
  IF Len(via) >= 3 THEN "stopped after 3 redirects"
  ELSE IF req.host # via[1].host THEN "redirect to different host not allowed"
  ELSE IF via[1].scheme = "https" /\ req.scheme # "https"
  THEN "redirect from HTTPS to HTTP not allowed"
  ELSE Nil

\* http.Client following the redirects the server answers with: targets are
\* the locations of the successive redirect responses.  Every redirect is
\* put to CheckRedirect before its request is made; followed counts the
\* redirects whose request was made.
RECURSIVE FollowFrom(_, _, _)
FollowFrom(via, targets, i) ==
  IF i > Len(targets) THEN [err |-> Nil, followed |-> Len(via) - 1]
  ELSE LET e == CheckRedirect(targets[i], via)
       IN IF e # Nil THEN [err |-> e, followed |-> Len(via) - 1]
          ELSE FollowFrom(Append(via, targets[i]), targets, i + 1)

FollowRedirects(orig, targets) == FollowFrom(<< orig >>, targets, 1)

\* Redirect chains of up to MaxChain locations: on the original host with
\* https or http, or on another host.
MaxChain == 4
Locations ==
  {Request("api.vpsie.com", "https"), Request("api.vpsie.com", "http"),
   Request("evil.example", "https")}
Chains == UNION {[1..n -> Locations] : n \in 0..MaxChain}

RedirectCalls ==
  {Pending("Do", [orig |-> Request("api.vpsie.com", s), targets |-> c]) :
     s \in {"https", "http"}, c \in Chains}

\* c.httpClient.Do(req) against a server that answers with redirects.
LibFollowRedirects ==
  /\ call.fn = "Do"
  /\ call.out = << >>
  /\ call' = [call EXCEPT !.out =
                << FollowRedirects(call.in.orig, call.in.targets) >>]
  /\ UNCHANGED agentVars

\* ------------------------------------------ hot-restart driver: ReloadGraceful
\* The content of the PID file is the sequence of its characters.

Whitespace == {" ", "\t", "\n", "\r"}
Digits == << "0", "1", "2", "3", "4", "5", "6", "7", "8", "9" >>
IsDigit(c) == \E i \in 1..Len(Digits) : Digits[i] = c
DigitValue(c) == (CHOOSE i \in 1..Len(Digits) : Digits[i] = c) - 1

\* strings.TrimSpace
RECURSIVE TrimLeft(_)
TrimLeft(s) ==
  IF Len(s) > 0 /\ s[1] \in Whitespace THEN TrimLeft(Tail(s)) ELSE s

RECURSIVE TrimRight(_)
TrimRight(s) ==
  IF Len(s) > 0 /\ s[Len(s)] \in Whitespace
  THEN TrimRight(SubSeq(s, 1, Len(s) - 1))
  ELSE s

TrimSpace(s) == TrimRight(TrimLeft(s))

\* The value of a sequence of decimal digits.
RECURSIVE Decimal(_, _)
Decimal(s, acc) ==
  IF Len(s) = 0 THEN acc ELSE Decimal(Tail(s), 10 * acc + DigitValue(s[1]))

\* strconv.Atoi: an optional sign, then one or more decimal digits; a number
\* of more than 19 digits does not fit the 64-bit int.
Atoi(s) ==
  LET signed == Len(s) > 0 /\ s[1] \in {"+", "-"}
      ds == IF signed THEN Tail(s) ELSE s
  IN IF Len(ds) = 0 \/ \E i \in 1..Len(ds) : ~IsDigit(ds[i])
     THEN [err |-> "invalid syntax", n |-> 0]
     ELSE IF Len(ds) > 19 THEN [err |-> "value out of range", n |-> 0]
     ELSE [err |-> Nil,
           n |-> IF signed /\ s[1] = "-" THEN 0 - Decimal(ds, 0) ELSE Decimal(ds, 0)]

maxPID == 4194304

\* The PID file: missing, or holding data.
NoPidFile == [exists |-> FALSE, data |-> << >>]
PidFile(data) == [exists |-> TRUE, data |-> data]

\* ReloadGraceful without the check of the PID's range.
ReloadGracefulAnyPID(file, findOK, signalOK) ==
  IF ~file.exists THEN [err |-> "failed to read PID file", signalled |-> << >>]
  ELSE LET pid == Atoi(TrimSpace(file.data))
       IN IF pid.err # Nil
          THEN [err |-> "invalid PID in file", signalled |-> << >>]
          ELSE IF ~findOK
          THEN [err |-> "failed to find Envoy process", signalled |-> << >>]
          ELSE [err |-> IF signalOK THEN Nil ELSE "failed to send SIGHUP to Envoy",
                signalled |-> << pid.n >>]

\* Reloader.ReloadGraceful: signalled lists the processes process.Signal was
\* called for.
ReloadGraceful(file, findOK, signalOK) ==
  IF ~file.exists THEN [err |-> "failed to read PID file", signalled |-> << >>]
  ELSE LET pid == Atoi(TrimSpace(file.data))
       IN IF pid.err # Nil
          THEN [err |-> "invalid PID in file", signalled |-> << >>]
          ELSE IF pid.n <= 0 \/ pid.n > maxPID
          THEN [err |-> "PID out of valid range", signalled |-> << >>]
          ELSE IF ~findOK
          THEN [err |-> "failed to find Envoy process", signalled |-> << >>]
          ELSE [err |-> IF signalOK THEN Nil ELSE "failed to send SIGHUP to Envoy",
                signalled |-> << pid.n >>]

PidFiles ==
  {NoPidFile} \cup
  {PidFile(d) : d \in
     {<< >>, << "\n" >>, << "1" >>, << "0" >>, << "-", "1", "\n" >>,
      << "-", "0" >>, << "+", "7" >>, << "-" >>, << "+" >>,
      << "1", "2", "3", "4", "\n" >>, << " ", "1", "2", "3", "4", " ", "\n" >>,
      << "\t", "4", "2", "\r", "\n" >>, << "0", "0", "4", "2" >>,
      << "1", "2", " ", "3", "4" >>, << "1", "2", "a" >>, << "1", ".", "5" >>,
      << "a", "b", "c", "\n" >>, << "1", "2", ";", "r", "m" >>,
      << "4", "1", "9", "4", "3", "0", "4" >>,
      << "4", "1", "9", "4", "3", "0", "5", "\n" >>,
      << "9", "9", "9", "9", "9", "9", "9", "9", "9" >>,
      << "9", "9", "9", "9", "9", "9", "9", "9", "9", "9",
         "9", "9", "9", "9", "9", "9", "9", "9", "9", "9" >>}}

\* Whether the process is found and whether the signal can be delivered is
\* the system's.
ReloadGracefulCalls ==
  {Pending("ReloadGraceful", [file |-> f, findOK |-> a, signalOK |-> b]) :
     f \in PidFiles, a \in BOOLEAN, b \in BOOLEAN}

\* r.ReloadGraceful()
LibReloadGraceful ==
  /\ call.fn = "ReloadGraceful"
  /\ call.out = << >>
  /\ call' = [call EXCEPT !.out =
                << ReloadGraceful(call.in.file, call.in.findOK, call.in.signalOK) >>]
  /\ UNCHANGED agentVars

\* ------------------------------------------------------- model validation

\* The sentinel errors of the models package.
Sentinels ==
  {"ErrInvalidID", "ErrInvalidName", "ErrInvalidPort", "ErrInvalidProtocol",
   "ErrNoBackends", "ErrInvalidAlgorithm", "ErrMissingTLSConfig",
   "ErrInvalidBackendID", "ErrInvalidBackendAddress", "ErrInvalidBackendPort",
   "ErrInvalidBackendWeight", "ErrInvalidHealthCheckType",
   "ErrInvalidHealthCheckInterval", "ErrInvalidHealthCheckTimeout",
   "ErrHealthCheckTimeoutTooLong", "ErrInvalidUnhealthyThreshold",
   "ErrInvalidHealthyThreshold", "ErrMissingHealthCheckPath",
   "ErrMissingCertificate", "ErrMissingPrivateKey", "ErrInvalidTLSVersion"}

\* A TLSConfig with its certificate and key in the certificate directory.
TLS1 ==
  [certificatePath |-> << "etc", "vpsie-lb", "certs", "lb.pem" >>,
   privateKeyPath |-> << "etc", "vpsie-lb", "certs", "lb.key" >>,
   caCertPath |-> NoPath, minVersion |-> "TLSv1.2", maxVersion |-> ""]

TLSConfigs ==
  {TLS1,
   [TLS1 EXCEPT !.certificatePath = NoPath],
   [TLS1 EXCEPT !.privateKeyPath = NoPath],
   [TLS1 EXCEPT !.minVersion = "TLSv1.0"],
   [TLS1 EXCEPT !.maxVersion = "TLSv1.3"],
   [TLS1 EXCEPT !.certificatePath = << "etc", "ssl", "lb.pem" >>],
   [TLS1 EXCEPT !.certificatePath = << "etc", "vpsie-lb", "certs", "in.pem" >>],
   [TLS1 EXCEPT !.certificatePath = << "etc", "vpsie-lb", "certs", "out.pem" >>],
   [TLS1 EXCEPT !.privateKeyPath =
      << "etc", "vpsie-lb", "certs", "..", "..", "shadow" >>],
   [TLS1 EXCEPT !.caCertPath = << "etc", "vpsie-lb", "certs", "loop.pem" >>]}

BackendLists ==
  {<< >>, << Backend1 >>,
   << Backend1, [Backend1 EXCEPT !.id = "be-2", !.address = "backend.local"] >>,
   << [Backend1 EXCEPT !.weight = 0 - 1] >>,
   << Backend1, [Backend1 EXCEPT !.address = "bad host"] >>,
   << [Backend1 EXCEPT !.port = 65536], [Backend1 EXCEPT !.id = ""] >>}

HealthChecks ==
  {HealthCheckHTTP("/health"), HealthCheckHTTP(""),
   [HealthCheckHTTP("/health") EXCEPT !.timeout = 10],
   [HealthCheckHTTP("/health") EXCEPT !.timeout = 0],
   [HealthCheckHTTP("") EXCEPT !.type = "tcp"],
   [HealthCheckHTTP("/health") EXCEPT !.type = "icmp"]}

\* The LoadBalancer values put to Validate.
LoadBalancers ==
  {[LB_S1 EXCEPT !.id = id, !.name = name, !.port = port, !.protocol = proto,
                 !.backends = bs, !.tlsConfig = tls, !.healthCheck = hc] :
     id \in {"lb-1", ""}, name \in {"t", ""}, port \in {80, 0, 65536},
     proto \in {"http", "https", "tcp", "udp"}, bs \in BackendLists,
     tls \in {NilPtr} \cup {<< t >> : t \in TLSConfigs},
     hc \in {NilPtr} \cup {<< h >> : h \in HealthChecks}}

ValidateCalls == {Pending("Validate", l) : l \in LoadBalancers}

\* lb.Validate()
LibValidate ==
  /\ call.fn = "Validate"
  /\ call.out = << >>
  /\ call' = [call EXCEPT !.out = << Validate(call.in) >>]
  /\ UNCHANGED agentVars

\* ------------------------------------------------------------ rendering

\* An identifier of 65 characters, all of them letters.
LongID == "aaaaaaaaaaaaaaaaaaaaaaaaaaaaaaaaaaaaaaaaaaaaaaaaaaaaaaaaaaaaaaaaa"

\* The identifiers that match ^[a-zA-Z0-9_-]+$ and have at most 64
\* characters, among those the inputs use ("lb.1" has a dot, LongID is too
\* long, "be 1" has a space).
SafeIdentifiers == {"lb-1", "be-1", "be-2"}

\* AlgoRoundRobin, AlgoLeastRequest, AlgoRandom, AlgoRingHash
Algorithms == {"round_robin", "least_request", "random", "ring_hash"}

\* Backend1 with Enabled false.
Backend1Disabled == [Backend1 EXCEPT !.enabled = FALSE]

\* The LoadBalancer values put to GenerateFullConfig.
RenderInputs ==
  {[LB_S1 EXCEPT !.id = id, !.algorithm = algo, !.backends = bs,
                 !.protocol = proto,
                 !.tlsConfig = IF proto = "https" THEN << TLS1 >> ELSE NilPtr,
                 !.healthCheck = hc] :
     id \in {"lb-1", "lb.1", LongID, ""},
     algo \in Algorithms \cup {"maglev", ""},
     bs \in {<< Backend1 >>,
             << Backend1, [Backend1 EXCEPT !.id = "be-2", !.address = "10.0.0.2"] >>,
             << Backend1Disabled >>,
             << Backend1Disabled, [Backend1Disabled EXCEPT !.id = "be-2"] >>,
             << Backend1Disabled, [Backend1 EXCEPT !.id = "be-2"] >>,
             << [Backend1 EXCEPT !.id = "be 1"] >>,
             << [Backend1Disabled EXCEPT !.id = LongID] >>,
             << >>},
     proto \in {"http", "https", "tcp"},
     hc \in {NilPtr, << HealthCheckHTTP("/health") >>, << HealthCheckHTTP("health") >>}}

GenerateCalls == {Pending("GenerateFullConfig", l) : l \in RenderInputs}

\* ----------------------------------------------------------- fingerprints

\* An HTTPS LoadBalancer with two backends, a health check and a TLSConfig.
LB_Full ==
  [LB_S1 EXCEPT !.protocol = "https", !.port = 443,
                !.backends = << Backend1, [Backend1 EXCEPT !.id = "be-2",
                                                          !.address = "10.0.0.2"] >>,
                !.healthCheck = << HealthCheckHTTP("/health") >>,
                !.tlsConfig = << TLS1 >>]

\* l and every LoadBalancer that differs from l in one field.
Variants(l) ==
  {l,
   [l EXCEPT !.id = "lb-2"], [l EXCEPT !.name = "u"], [l EXCEPT !.name = ""],
   [l EXCEPT !.port = 8080], [l EXCEPT !.protocol = "tcp"],
   [l EXCEPT !.algorithm = "least_request"],
   [l EXCEPT !.backends[1].address = "backend.local"],
   [l EXCEPT !.backends[1].id = "be-3"],
   [l EXCEPT !.backends[1].status = "up"],
   [l EXCEPT !.backends[1].port = 8081],
   [l EXCEPT !.backends[1].weight = 5],
   [l EXCEPT !.backends[1].enabled = FALSE],
   [l EXCEPT !.backends = Append(l.backends, [Backend1 EXCEPT !.id = "be-3"])],
   [l EXCEPT !.backends = << >>],
   [l EXCEPT !.healthCheck = IF l.healthCheck = NilPtr
                             THEN << [HealthCheckHTTP("") EXCEPT !.type = "tcp"] >>
                             ELSE NilPtr],
   [l EXCEPT !.healthCheck = << HealthCheckHTTP("") >>],
   [l EXCEPT !.healthCheck = << [HealthCheckHTTP("/health") EXCEPT
                                   !.expectedStatus = << 200 >>] >>],
   [l EXCEPT !.healthCheck = << [HealthCheckHTTP("/health") EXCEPT !.interval = 30] >>],
   [l EXCEPT !.tlsConfig = IF l.tlsConfig = NilPtr
                           THEN << [TLS1 EXCEPT !.minVersion = "TLSv1.3"] >>
                           ELSE NilPtr],
   [l EXCEPT !.tlsConfig = << [TLS1 EXCEPT !.maxVersion = "TLSv1.3"] >>],
   [l EXCEPT !.tlsConfig = << [TLS1 EXCEPT !.caCertPath =
                                 << "etc", "vpsie-lb", "certs", "ca.pem" >>] >>],
   [l EXCEPT !.timeouts = << [connect |-> 5, idle |-> 300, request |-> 60] >>],
   [l EXCEPT !.maxConnections = 10000],
   [l EXCEPT !.createdAt = 1], [l EXCEPT !.updatedAt = 1]}

\* The pairs of LoadBalancers whose fingerprints are compared.
HashCalls ==
  {Pending("computeConfigHash", << a, b >>) :
     a \in Variants(LB_S1) \cup Variants(LB_Full),
     b \in Variants(LB_S1) \cup Variants(LB_Full)}

\* a.computeConfigHash(lb), for one LoadBalancer and then for another.
LibComputeConfigHash ==
  /\ call.fn = "computeConfigHash"
  /\ call.out = << >>
  /\ call' = [call EXCEPT !.out = << << computeConfigHash(call.in[1]),
                                        computeConfigHash(call.in[2]) >> >>]
  /\ UNCHANGED agentVars

\* a.envoyGenerator.GenerateFullConfig(lb)
LibGenerateFullConfig ==
  /\ call.fn = "GenerateFullConfig"
  /\ call.out = << >>
  /\ call' = [call EXCEPT !.out = << GenerateFullConfig(call.in) >>]
  /\ UNCHANGED agentVars


InitLib ==
  /\ pc = "new"
  /\ running = FALSE
  /\ ctxDone = FALSE
  /\ lastConfigHash = EmptyHash
  /\ epoch = 0
  /\ fs = FreshDir
  /\ lb = << >>
  /\ configHash = EmptyHash
  /\ envoyConfig = << >>
  /\ ticks = 0
  /\ ops = << >>
  /\ start = [fs |-> fs, epoch |-> 0, hash |-> EmptyHash, applied |-> << >>]
  /\ result = "none"
  /\ prev = [lb |-> << >>, result |-> "none"]
  /\ spawned = << >>
  /\ reloads = << >>
  /\ fetchLate = NoLate
  /\ \/ call \in WriteCalls
     \/ call \in StoreCalls
     \/ call \in ClientCalls
     \/ call \in NewClientCalls
     \/ call \in RedirectCalls
     \/ call \in ReloadGracefulCalls
     \/ call \in ValidateCalls
     \/ call \in GenerateCalls
     \/ call \in HashCalls

NextLib ==
  \/ LibNewVPSieClient
  \/ LibFollowRedirects
  \/ LibReloadGraceful
  \/ LibValidate
  \/ LibGenerateFullConfig
  \/ LibComputeConfigHash
  \/ LibAtomicWrite
  \/ LibBackup
  \/ LibChange
  \/ LibRestore
  \/ LibGetLoadBalancerConfig
  \/ LibUpdateLoadBalancerStatus
  \/ LibUpdateBackendStatus
  \/ LibReportMetrics
  \/ LibSendEvent

SpecLib == InitLib /\ [][NextLib]_vars

\* ------------------------------------------------------------------ claims

\* A reconciliation has returned and the worker is back in Start.
TickEnded == pc \in {"select", "returned"} /\ result \notin {"none", "running"}

HasOp(name) == \E i \in 1..Len(ops) : ops[i].op = name
OpOK(name) == \E i \in 1..Len(ops) : ops[i].op = name /\ ops[i].ok
OpFailed(name) == \E i \in 1..Len(ops) : ops[i].op = name /\ ~ops[i].ok
CountOp(name) == Cardinality({i \in 1..Len(ops) : ops[i].op = name})

\* The current reconciliation made no call and changed nothing.
NoEffect ==
  /\ ops = << >>
  /\ fs = start.fs
  /\ epoch = start.epoch
  /\ lastConfigHash = start.hash

\* C1: a reconciliation that fetches the LoadBalancer of the last successful
\* reconciliation is a no-op: no backup, no write, no Reload, no event, the
\* fingerprint and the epoch unchanged, and it returns nil at the comparison.
C1_IdempotentReconciliation ==
  (lb # << >> /\ start.applied = lb) =>
    /\ NoEffect
    /\ pc \in {"validate", "compare", "select", "returned"}
    /\ TickEnded => result = "noop"

C1_Witness ==
  /\ TickEnded
  /\ result = "noop"
  /\ lb = << LB_S1 >>
  /\ prev = [lb |-> << LB_S1 >>, result |-> "ok"]
  /\ epoch = 1

C3_StoreErrorTriggersRestore ==
  (TickEnded /\ result = "apply_err") => HasOp("restore")

\* C4 as stated: a reconciliation whose rendering failed has created or
\* modified no file, neither a live one nor one under D/.backup.
C4_RenderFailureWritesNothing ==
  (TickEnded /\ result = "render_err") =>
    /\ fs.live = start.fs.live
    /\ fs.tmp = start.fs.tmp
    /\ fs.bak = start.fs.bak

\* C5: a reconciliation whose fetch failed or whose LoadBalancer failed
\* validation (HTTPS without TLSConfig is refused) made no call and changed
\* neither a file, nor the fingerprint, nor the epoch.
C5_AbandonedTickHasNoEffect ==
  /\ (TickEnded /\ result \in {"fetch_err", "invalid"}) => NoEffect
  /\ (lb # << >> /\ lb[1].protocol = "https" /\ lb[1].tlsConfig = NilPtr) =>
       /\ NoEffect
       /\ pc \in {"validate", "select", "returned"}
       /\ TickEnded => result = "invalid"

C5_Witness ==
  /\ TickEnded
  /\ result = "invalid"
  /\ lb = << LB_S3 >>
  /\ lastConfigHash = computeConfigHash(LB_S1)
  /\ fs.live["clusters.yaml"].data # << >>

\* C6: within a reconciliation BackupConfig is attempted before ApplyConfig,
\* Reload is invoked only after BackupConfig was attempted and ApplyConfig
\* returned nil, and each of the three is called at most once.
C6_BackupApplyRestartOrdered ==
  /\ \A i \in 1..Len(ops) :
       /\ ops[i].op = "apply" => \E j \in 1..(i - 1) : ops[j].op = "backup"
       /\ ops[i].op = "reload" =>
            \E k \in 1..(i - 1) :
              /\ ops[k].op = "apply"
              /\ ops[k].ok
              /\ \E j \in 1..(k - 1) : ops[j].op = "backup"
  /\ CountOp("backup") <= 1
  /\ CountOp("apply") <= 1
  /\ CountOp("reload") <= 1

C6_Witness ==
  /\ pc = "record"
  /\ OpFailed("backup")
  /\ OpOK("apply")
  /\ OpOK("reload")

\* C7: a reconciliation whose Reload failed returns an error and leaves the
\* fingerprint as it was; the next one, fetching the same LoadBalancer, is not
\* a no-op: it attempts the backup and the apply again, and Reload once the
\* apply has succeeded.
C7_FailedReloadIsRetried ==
  /\ (TickEnded /\ result = "reload_err") => lastConfigHash = start.hash
  /\ (TickEnded /\ prev.result = "reload_err" /\ lb # << >> /\ lb = prev.lb) =>
       /\ result \in {"ok", "apply_err", "reload_err"}
       /\ HasOp("backup")
       /\ HasOp("apply")
       /\ OpOK("apply") => HasOp("reload")

C7_Witness ==
  /\ TickEnded
  /\ prev = [lb |-> << LB_S1 >>, result |-> "reload_err"]
  /\ lb = prev.lb
  /\ result = "ok"

\* C8: a config_updated event is sent only right after the Reload of the same
\* reconciliation succeeded; its config_hash is the fingerprint just recorded
\* and its epoch is the --restart-epoch of that Reload, which is the number of
\* successful reconciliations so far (1 for the first, 2 for the second).
C8_EventCarriesHashAndEpoch ==
  \A i \in 1..Len(ops) :
    ops[i].op = "event" =>
      /\ i > 1
      /\ ops[i - 1].op = "reload"
      /\ ops[i - 1].ok
      /\ lastConfigHash = computeConfigHash(lb[1])
      /\ ops[i].arg = << lastConfigHash, ops[i - 1].arg[1] >>
      /\ ops[i - 1].arg[1] = Len(spawned)
      /\ spawned[Len(spawned)] = Len(spawned)

C8_Witness ==
  /\ TickEnded
  /\ result = "ok"
  /\ ticks = 3
  /\ prev.result = "reload_err"
  /\ ops[Len(ops)] = Op("event", TRUE, << computeConfigHash(LB_S4), 2 >>)

\* C9: a failed BackupConfig does not end the reconciliation (the rendering
\* follows, then the apply and the Reload as far as each step before
\* succeeded), and a failed event POST after a successful Reload leaves the
\* reconciliation successful, the fingerprint recorded, the epoch advanced,
\* and no restore invoked.
C9_TransientWarningsNotPropagated ==
  /\ (TickEnded /\ OpFailed("backup")) =>
       /\ HasOp("generate")
       /\ OpOK("generate") => HasOp("apply")
       /\ OpOK("apply") => HasOp("reload")
       /\ OpOK("reload") => result = "ok"
  /\ (TickEnded /\ OpFailed("event")) =>
       /\ result = "ok"
       /\ lastConfigHash = computeConfigHash(lb[1])
       /\ epoch = start.epoch + 1
       /\ ~HasOp("restore")

C9_Witness ==
  /\ TickEnded
  /\ OpFailed("backup")
  /\ OpFailed("event")
  /\ ~ctxDone
  /\ result = "ok"

C11_FailedReloadIncrementsEpoch ==
  (spawned = << >> /\ Len(reloads) \in 1..2) =>
    GetCurrentEpoch(epoch) = Len(reloads)

C13_DistinctEpochPerReload ==
  \A i, j \in 1..Len(reloads) : i # j => reloads[i] # reloads[j]

\* How a reconciliation fails.
Failures == {"fetch_err", "invalid", "render_err", "apply_err", "reload_err"}

\* C14: Start returns only after the cancellation; after a failed
\* reconciliation, initial or periodic, the worker is back in the select of
\* Start, where the next poll tick starts a reconciliation; and the failed
\* reconciliation made none of its calls twice.
C14_LoopErrorsNeverTerminate ==
  /\ pc = "returned" => ctxDone
  /\ (TickEnded /\ result \in Failures) =>
       /\ pc = "select" \/ ctxDone
       /\ (pc = "select" /\ ticks < MaxTicks) => ENABLED Tick
       /\ \A i, j \in 1..Len(ops) : ops[i].op = ops[j].op => i = j

C14_Witness ==
  /\ pc = "select"
  /\ ~ctxDone
  /\ ticks = 3
  /\ prev.result = "apply_err"
  /\ result = "reload_err"

\* C15: once the context is cancelled, the select of Start starts no further
\* reconciliation, also when a poll tick is pending with the cancellation.
C15_NoReconciliationAfterCancel ==
  [][(ctxDone /\ pc = "select") => ticks' = ticks]_vars

\* C16: the fetch issues no request and begins no backoff wait once its
\* context is done, except the one request that finds it done.
C16_FetchHonorsCancellation ==
  /\ fetchLate.waits = 0
  /\ fetchLate.calls <= 1

\* C17: once Stop has returned and IsRunning() is false, the loop of Start
\* starts no reconciliation.
C17_StopStopsEngine ==
  [][(~IsRunning /\ pc = "select") => ticks' = ticks]_vars

\* C18: a reconciliation begins only after the one before it has returned,
\* the worker is inside syncConfiguration exactly while one is in flight, and
\* each reconciliation calls Reload, and so spawns a proxy, at most once.
C18_OneReconciliationInFlight ==
  /\ prev.result # "running"
  /\ (result = "running") <=> (pc \notin {"new", "select", "returned"})
  /\ CountOp("reload") <= 1
  /\ Len(reloads) <= ticks

C18_Witness ==
  /\ ticks = 2
  /\ pc = "record"
  /\ prev.result = "ok"
  /\ spawned = << 1, 2 >>

\* C19: after ApplyConfig, failed or not, each managed file holds exactly its
\* content from before the call or exactly the new document, and the new
\* document when ApplyConfig succeeded.
C19_ApplyIsAtomicPerFile ==
  (HasOp("apply") /\ ~HasOp("restore")) =>
    \A f \in FileSet :
      /\ fs.live[f] \in {start.fs.live[f], FileOf(ConfigData(envoyConfig[1], f))}
      /\ OpOK("apply") => fs.live[f] = FileOf(ConfigData(envoyConfig[1], f))

C19_Witness ==
  /\ OpFailed("apply")
  /\ start.fs.live = [f \in FileSet |-> EmptyFile]
  /\ fs.live["listeners.yaml"] = FileOf(envoyConfig[1].listeners)
  /\ fs.live["clusters.yaml"] = EmptyFile
  /\ fs.tmp["clusters.yaml"] = Truncated

\* C20: no managed file is ever left partially written: every change to one
\* is a rename of a completely written temp file.
C20_LiveFilesChangeOnlyByRename ==
  \A f \in FileSet : ~fs.live[f].trunc

\* C21: no temp file <name>.tmp is left in the configuration directory by an
\* atomic write, whether the write succeeded or failed after creating it.
C21_NoTempFileRemains ==
  \A f \in FileSet : ~fs.tmp[f].exists

\* C22: a write to a path whose cleaned form is neither D, parent(D) nor
\* under one of them fails with the path-escape error and changes nothing in
\* the file system.
C22_EscapedPathChangesNothing ==
  Returned("atomicWrite") =>
    LET c == Clean(call.in.path)
    IN (~Within(c, ConfigDir) /\ ~Within(c, Dir(ConfigDir))) =>
         /\ call.out[1].err = PathEscape
         /\ call.out[1].effects = << >>

C22_Witness ==
  /\ Returned("atomicWrite")
  /\ call.in.path = << "etc", "envoy", "..", "..", "tmp", "x.yaml" >>
  /\ call.in.eval = EvalNotExist
  /\ call.out[1].err = PathEscape
  /\ call.out[1].effects = << >>

\* C23: when BackupConfig returned nil with both managed files present and,
\* after any changes of the live files, RestoreConfig returned nil, both
\* managed files hold the content they had when BackupConfig was called.  A
\* managed file missing when BackupConfig is called leaves its backup copy as
\* it was and a missing backup copy leaves its managed file as it was, and
\* neither makes the call fail: with nothing to copy, the call returns nil
\* unless the backup directory cannot be made or a read fails otherwise.
C23_BackupRestoreRoundTrip ==
  call.fn = "store" =>
    /\ (/\ call.backupErr = Nil
        /\ call.restoreErr = Nil
        /\ \A f \in FileSet : call.atBackup.live[f].exists)
         => call.dir.live = call.atBackup.live
    /\ call.backupErr # NotCalled =>
         /\ \A f \in FileSet :
              ~call.atBackup.live[f].exists =>
                 call.afterBackup.bak[f] = call.atBackup.bak[f]
         /\ (/\ \A f \in FileSet : ~call.atBackup.live[f].exists
             /\ call.backupFault[2] \notin {"mkdir", "read"})
              => call.backupErr = Nil
    /\ call.restoreErr # NotCalled =>
         /\ \A f \in FileSet :
              ~call.atRestore.bak[f].exists =>
                 call.dir.live[f] = call.atRestore.live[f]
         /\ (/\ \A f \in FileSet : ~call.atRestore.bak[f].exists
             /\ call.restoreFault[2] # "read")
              => call.restoreErr = Nil

C23_Witness ==
  /\ call.fn = "store"
  /\ call.stage = "done"
  /\ call.backupErr = Nil
  /\ call.restoreErr = Nil
  /\ call.atBackup.live = DirWith(DocsS1).live
  /\ call.atRestore.live["listeners.yaml"] = FileOf(DocsS4.listeners)
  /\ ~call.atRestore.live["clusters.yaml"].exists
  /\ call.dir.live = DirWith(DocsS1).live

\* C23, second case: a restore in a directory without backup copies and a
\* backup in a directory without managed files return nil and copy nothing.
C23_WitnessMissing ==
  /\ call.fn = "store"
  /\ call.stage = "done"
  /\ call.atBackup = FreshDir
  /\ call.backupErr = Nil
  /\ call.restoreErr = Nil
  /\ call.dir.live = [f \in FileSet |-> Missing]

\* C24: a fetch issues at most 4 requests; every request but the last gave an
\* error or a 5xx status, and a request that gave a status below 500 is the
\* last one; the sleeps before the retries are 1 s, 2 s and 4 s, in that
\* order; each PUT or POST operation issues exactly one request and never
\* sleeps.
C24_RetryPolicy ==
  /\ Returned(Fetch) =>
       LET r == call.out[1]
           n == r.calls
       IN /\ n \in 1..4
          /\ Len(r.outcomes) = n
          /\ \A i \in 1..n :
               /\ r.outcomes[i] = Do(call.in.fn, call.in.doneAt, i - 1)
               /\ i < n => r.outcomes[i] \in {NetErr, CtxErr, "500", "503"}
               /\ r.outcomes[i] \in {"200", "404"} => i = n
          /\ r.backoffs = SubSeq(<< 1, 2, 4 >>, 1, n - 1)
          /\ (n < 4 => r.outcomes[n] \in {"200", "404"})
  /\ \A op \in NonGetOps :
       Returned(op) =>
         /\ call.out[1].calls = 1
         /\ call.out[1].outcomes = << Do(call.in.fn, call.in.doneAt, 0) >>
         /\ call.out[1].backoffs = << >>

C24_Witness ==
  /\ Returned(Fetch)
  /\ call.out[1].outcomes = << "503", NetErr, "500", "404" >>
  /\ call.out[1].backoffs = << 1, 2, 4 >>
  /\ call.out[1].err = "API returned status"

\* C25: with TestMode off, NewVPSieClient returns an error and no client for
\* every base URL whose host is localhost, an address 127.*, ::1, or an IP
\* address in 10.0.0.0/8, 172.16.0.0/12, 192.168.0.0/16, 169.254.0.0/16,
\* fd00::/8 (first 16 bits fd00..fdff) or fe80::/10 (fe80..febf).
C25_NoClientForLocalOrPrivateHost ==
  (Returned("NewVPSieClient") /\ ~call.in.testMode) =>
    LET h == call.in.url.host
        a == h.ip
        local == \/ h.labels = << "localhost" >>
                 \/ (a.v = 4 /\ a.b[1] = 127)
                 \/ a = IP6Loopback
        private4 == /\ a.v = 4
                    /\ \/ a.b[1] = 10
                       \/ (a.b[1] = 172 /\ a.b[2] \in 16..31)
                       \/ (a.b[1] = 192 /\ a.b[2] = 168)
                       \/ (a.b[1] = 169 /\ a.b[2] = 254)
        private6 == /\ a.v = 6
                    /\ ~a.one
                    /\ (a.b[1] \in 64768..65023 \/ a.b[1] \in 65152..65215)
    IN (local \/ private4 \/ private6) =>
         /\ call.out[1].err # Nil
         /\ ~call.out[1].client

C25_Witness ==
  /\ Returned("NewVPSieClient")
  /\ ~call.in.testMode
  /\ call.in.url.parses
  /\ call.in.url.scheme = "http"
  /\ call.in.url.host.ip = IP4(169, 254, 169, 254)
  /\ call.out[1].err = "base URL must not be localhost or private IP address"
  /\ ~call.out[1].client

\* C26: a redirect is permitted when it stays on the original request's host
\* and does not leave https; the client follows the permitted redirects at
\* the head of a chain up to the third and refuses the first redirect that is
\* not permitted or comes after three followed ones.
C26_RedirectsFollowedUpToThree ==
  Returned("Do") =>
    LET orig == call.in.orig
        ts == call.in.targets
        Permitted(t) == /\ t.host = orig.host
                        /\ (orig.scheme = "https" => t.scheme = "https")
        head == {n \in 0..Len(ts) : \A i \in 1..n : Permitted(ts[i])}
        longest == CHOOSE n \in head : \A m \in head : m <= n
        expected == IF longest > 3 THEN 3 ELSE longest
    IN /\ call.out[1].followed = expected
       /\ call.out[1].err = Nil <=> expected = Len(ts)

\* C27: ReloadGraceful signals a process only when the PID file exists, its
\* content without the surrounding whitespace is an integer in 1..4194304
\* and the process was found, and then it signals exactly that process; when
\* the file is missing, the content is not an integer or the integer is
\* outside 1..4194304, it returns an error and signals no process.
C27_SignalOnlyForValidPid ==
  Returned("ReloadGraceful") =>
    LET file == call.in.file
        parsed == Atoi(TrimSpace(file.data))
        valid == /\ file.exists
                 /\ parsed.err = Nil
                 /\ parsed.n > 0
                 /\ parsed.n <= 4194304
    IN /\ call.out[1].signalled # << >> =>
            /\ valid
            /\ call.in.findOK
            /\ call.out[1].signalled = << parsed.n >>
       /\ ~valid => (call.out[1].err # Nil /\ call.out[1].signalled = << >>)
       /\ call.out[1].err = Nil => call.out[1].signalled # << >>

C27_Witness ==
  /\ Returned("ReloadGraceful")
  /\ call.in.file = PidFile(<< "4", "1", "9", "4", "3", "0", "5", "\n" >>)
  /\ call.in.findOK
  /\ call.in.signalOK
  /\ call.out[1].err = "PID out of valid range"
  /\ call.out[1].signalled = << >>

\* C27, the other case: a PID surrounded by whitespace is signalled.
C27_WitnessSignal ==
  /\ Returned("ReloadGraceful")
  /\ call.in.file = PidFile(<< " ", "1", "2", "3", "4", " ", "\n" >>)
  /\ call.out[1].err = Nil
  /\ call.out[1].signalled = << 1234 >>

\* C28: a LoadBalancer for which the store was called (backup, write) or
\* Reload was invoked satisfies the model invariants: HTTPS has a TLSConfig,
\* there is a backend, every backend has an id, a valid address, a port in
\* 1..65535 and a weight >= 0, and a health check has 0 < timeout < interval.
C28_OnlyValidConfigsReachStoreAndReload ==
  (HasOp("backup") \/ HasOp("apply") \/ HasOp("reload")) =>
    LET l == lb[1]
    IN /\ l.protocol = "https" => l.tlsConfig # NilPtr
       /\ Len(l.backends) >= 1
       /\ \A i \in 1..Len(l.backends) :
            /\ l.backends[i].id # ""
            /\ l.backends[i].address \in IPAddresses \cup HostnameMatches
            /\ l.backends[i].port \in 1..65535
            /\ l.backends[i].weight >= 0
       /\ l.healthCheck # NilPtr =>
            /\ l.healthCheck[1].timeout > 0
            /\ l.healthCheck[1].timeout < l.healthCheck[1].interval

C28_Witness ==
  /\ OpOK("apply")
  /\ OpOK("reload")
  /\ lb = << LB_S4 >>
  /\ prev.lb = << LB_BadBackend >>
  /\ prev.result = "invalid"
  /\ fs.live["clusters.yaml"] = FileOf(GenerateCluster(LB_S4).doc[1])

\* C29: Validate returns the error of the first category that fails, in the
\* order basic fields, backends, TLS, health check, and nil when none fails.
\* Among the basic fields the order is id, name, port, protocol; an empty
\* list of backends gives ErrNoBackends and otherwise the first invalid
\* backend in sequence order gives the error; HTTPS without a TLSConfig
\* gives ErrMissingTLSConfig.
C29_ValidationOrder ==
  Returned("Validate") =>
    LET l == call.in
        e == call.out[1]
        cats == << validateBasicFields(l), validateBackends(l),
                   validateTLSConfig(l), validateHealthCheck(l) >>
        failing == {i \in 1..4 : cats[i] # Nil}
        first == CHOOSE i \in failing : \A j \in failing : i <= j
        badBackends == {i \in 1..Len(l.backends) : BackendValidate(l.backends[i]) # Nil}
        basicOK == /\ l.id # "" /\ l.name # "" /\ l.port \in 1..65535
                   /\ l.protocol \in {"http", "https", "tcp"}
    IN /\ IF failing = {} THEN e = Nil ELSE e = cats[first]
       /\ l.id = "" => e = "ErrInvalidID"
       /\ (l.id # "" /\ l.name = "") => e = "ErrInvalidName"
       /\ (l.id # "" /\ l.name # "" /\ l.port \notin 1..65535) => e = "ErrInvalidPort"
       /\ (basicOK /\ l.backends = << >>) => e = "ErrNoBackends"
       /\ (basicOK /\ badBackends # {}) =>
            e = BackendValidate(l.backends[CHOOSE i \in badBackends :
                                             \A j \in badBackends : i <= j])
       /\ (/\ basicOK /\ l.backends # << >> /\ badBackends = {}
           /\ l.protocol = "https" /\ l.tlsConfig = NilPtr)
            => e = "ErrMissingTLSConfig"

C29_Witness ==
  /\ Returned("Validate")
  /\ call.in.protocol = "https"
  /\ call.in.id = "lb-1" /\ call.in.name = "t" /\ call.in.port = 80
  /\ call.in.backends = << Backend1, [Backend1 EXCEPT !.address = "bad host"] >>
  /\ call.in.tlsConfig = NilPtr
  /\ call.in.healthCheck = << HealthCheckHTTP("") >>
  /\ call.out[1] = "ErrInvalidBackendAddress"

\* C30: Validate returns nil or one of the sentinel errors, whatever the
\* LoadBalancer.
C30_ValidateReturnsNilOrSentinel ==
  Returned("Validate") => call.out[1] \in {Nil} \cup Sentinels

\* C31: no LoadBalancer whose identifier, or one of whose backends'
\* identifiers, fails to match [A-Za-z0-9_-]+ or is longer than 64 characters
\* passes validation, so that no such identifier is rendered as cluster_<id>.
C31_OnlySafeIdentifiersRendered ==
  (Returned("GenerateFullConfig") /\ call.out[1].err = Nil) =>
    /\ call.in.id \in SafeIdentifiers
    /\ \A i \in 1..Len(call.in.backends) : call.in.backends[i].id \in SafeIdentifiers
    /\ call.out[1].cfg[1].clusters.name[2] \in SafeIdentifiers

\* C32: no LoadBalancer whose balancing algorithm is outside round_robin,
\* least_request, random, ring_hash passes validation, so that no cluster is
\* rendered with an unknown load-balancing policy.
C32_OnlyKnownAlgorithmsRendered ==
  (Returned("GenerateFullConfig") /\ call.out[1].err = Nil) =>
    /\ call.in.algorithm \in Algorithms
    /\ call.out[1].cfg[1].clusters.loadBalancingAlgo \in Algorithms

C34_ReloadFailureIsReported ==
  (pc = "select" /\ result = "reload_err") =>
    \E i \in 1..Len(ops) :
      /\ ops[i].op = "event"
      /\ \E j \in 1..(i - 1) : ops[j].op = "restore"

\* C35: whenever the engine invokes Reload, the store has written the
\* bootstrap document before, and the -c path handed to the proxy is the path
\* at which the store writes bootstrap.yaml, parent(D)/bootstrap.yaml.
C35_ReloadUsesWrittenBootstrap ==
  \A i \in 1..Len(ops) :
    ops[i].op = "reload" =>
      /\ ReloaderConfigPath(ConfigDir) = BootstrapPath(ConfigDir)
      /\ BootstrapPath(ConfigDir) = << "etc", "bootstrap.yaml" >>
      /\ \E j \in 1..(i - 1) : ops[j].op = "bootstrap"

\* C36: after SIGINT or SIGTERM the process exits only after Start, once
\* entered, has returned, so that it never exits while a reconciliation is
\* between ApplyConfig and the Reload or RestoreConfig that follows it.
C36_ExitOnlyAfterStartReturned ==
  (call.fn = "main" /\ call.at = "exited") => pc \in {"new", "returned"}

\* C37: the last-applied fingerprint is written only in a reconciliation
\* whose Reload succeeded.  Between reconciliations it is empty exactly when
\* no Reload has succeeded since the agent started, and otherwise it is the
\* fingerprint of the configuration of the most recent successful Reload; a
\* reconciliation that failed, or found nothing to do, leaves it as it was.
C37_FingerprintOnlyAfterSuccessfulReload ==
  pc = "select" =>
    LET reloaded == \E i \in 1..Len(ops) : ops[i].op = "reload" /\ ops[i].ok
    IN /\ (lastConfigHash = EmptyHash) <=> (spawned = << >>)
       /\ reloaded => lastConfigHash = computeConfigHash(lb[1])
       /\ ~reloaded => lastConfigHash = start.hash
       /\ lastConfigHash = IF AppliedNow = << >> THEN EmptyHash
                           ELSE computeConfigHash(AppliedNow[1])
       /\ (AppliedNow = << >>) <=> (spawned = << >>)

C37_Witness ==
  /\ pc = "select"
  /\ result = "reload_err"
  /\ lastConfigHash = computeConfigHash(LB_S1)
  /\ configHash = computeConfigHash(LB_S4)
  /\ Len(spawned) = 1

\* C38: whenever a reconciliation ends without doing anything because the
\* fetched fingerprint equals the last-applied one, the live listeners.yaml
\* and clusters.yaml are the rendering of the fetched configuration, also
\* after earlier reconciliations in which the backup failed, Reload failed,
\* or the restore was skipped or failed.
C38_NoopMeansFilesAreCurrent ==
  (pc = "select" /\ result = "noop") =>
    \A f \in FileSet :
      fs.live[f] = FileOf(ConfigData(GenerateFullConfig(lb[1]).cfg[1], f))

\* C39: every configuration for which Reload is invoked, that is every
\* LoadBalancer that passes validation and is rendered, has an enabled
\* backend, and so an endpoint in its rendered cluster.
C39_RenderedClusterHasEndpoint ==
  (Returned("GenerateFullConfig") /\ call.out[1].err = Nil) =>
    Len(call.out[1].cfg[1].clusters.endpoints) >= 1

====
